---- MODULE Spec2Model ----
(***************************************************************************)
(* Verification model of auspex: the browser pool (src/browser/pool.ts),   *)
(* the agent run with its static and interactive loops (src/agent/agent.ts *)
(* and src/agent/loop.ts) and the LLM client's retry loop                  *)
(* (src/llm/client.ts).  Each subsystem has its own specification:         *)
(*   SpecPool  - BrowserPool under concurrent acquire/release/close        *)
(*   SpecRun   - one Auspex.run() call                                     *)
(*   SpecLLM   - one LLMClient.decideAction() call                         *)
(***************************************************************************)
EXTENDS Integers, Sequences, FiniteSets, TLC

\* ------------------------------------------------------------------ bounds
\* Number of concurrent consumers of the pool.
NumClients == 3
\* Largest maxSize a pool is constructed with.
MaxPoolSize == 2
\* Number of browsers chromium.launch may start in one behaviour.
MaxLaunch == 3
\* Largest maxIterations a run is configured with.
MaxIter == 4
\* The positive maxTotalTokens a run may be configured with (0 is the other).
BudgetChoice == 3
\* The total_tokens every LLM response reports.
CallTokens == 2
\* The longest urls list and the largest concurrency given to scrapeMany
MaxUrls == 4
MaxConcurrency == 3
\* Number of iterations of the loop detection followed on its own.
MaxSteps == 14
\* Number of launches of the singleton browser followed.
MaxAttempts == 3

Clients == 1..NumClients
BrowserIds == 1..MaxLaunch
NoBrowser == 0

VARIABLES
  \* ---- BrowserPool fields (pool.ts:19-25)
  maxSize,       \* this.maxSize
  browsers,      \* this.browsers: every live browser, in launch order
  available,     \* this.available: the idle stack
  waitQueue,     \* this.waitQueue: pending waiters, identified by their acquire call
  timers,        \* waiters whose setTimeout timer is armed
  closed,        \* this.closed
  \* ---- environment of the pool
  connected,     \* browsers for which isConnected() is true
  closing,       \* browsers with a browser.close() in progress
  closeWait,     \* browsers the running pool.close() awaits
  closePc,       \* "open" | "closing" | "closed": progress of pool.close()
  launched,      \* number of browsers chromium.launch has produced
  pc,            \* per client: "idle" | "launching" | "waiting" | "holding"
  held,          \* per client: the browser its acquire() returned
  \* ---- history variables
  arrived,       \* pending waiters in order of arrival
  lastOp         \* what the last pool operation did

poolVars == <<maxSize, browsers, available, waitQueue, timers, closed, connected,
              closing, closeWait, closePc, launched, pc, held, arrived, lastOp>>

VARIABLES
  \* ---- Auspex agent and the configuration of the run (agent.ts:244-255)
  maxIterations,        \* effectiveConfig.maxIterations
  maxTotalTokens,       \* effectiveConfig.maxTotalTokens
  visionAvailable,      \* config.vision && isVisionModel(config.model)
  poolAttached,         \* this.pool !== null
  signalAborted,        \* options.signal.aborted
  \* ---- Auspex.run
  runPc,                \* the suspension point run() is at
  staticLoopUsage,      \* usage of the static attempt
  browserFrom,          \* "none" | "pool" | "singleton": the branch acquireBrowser took
  contextOpen,          \* a browser context of this run is open
  pageOpen,             \* the page of this run is open
  releases,             \* number of pool.release calls of this run
  result,               \* the AgentResult returned
  \* ---- runAgentLoop locals (loop.ts:203-217)
  i, actions, history, usage, recentActionKeys, consecutiveFailures, useVision,
  action,               \* the validated action of the static attempt or the iteration
  \* ---- history variables
  guards,               \* the guard values read at the top of the current iteration
  abortIter,            \* iteration in progress when the signal fired, -1 if none
  abortSeen,            \* "none" | "run" | "static": the check that first saw the signal
  lastSnapIter,         \* last iteration that took a snapshot
  lastLlmIter,          \* last iteration that issued an LLM call
  lastExecIter,         \* last iteration that executed an action
  requests,             \* number of decideAction calls issued by the run
  shots,                \* per loop request: "none" | "failed" | "sent" (the screenshot)
  peakFailures,         \* highest value consecutiveFailures has had
  events,               \* the callbacks and events of the run, in order
  thrownBy              \* "none" | "options" | "url" | "pool" | "launch": what run() threw

runVars == <<maxIterations, maxTotalTokens, visionAvailable, poolAttached, signalAborted,
             runPc, staticLoopUsage, browserFrom, contextOpen, pageOpen, releases, result,
             i, actions, history, usage, recentActionKeys, consecutiveFailures, useVision,
             action, guards, abortIter, abortSeen, lastSnapIter, lastLlmIter, lastExecIter,
             requests, shots, peakFailures, events, thrownBy>>

VARIABLES
  \* ---- LLMClient.decideAction locals (client.ts:59-124)
  attempt,              \* the for-loop counter
  llmPc,                \* "idle" | "request" | "sleep" | "returned" | "thrown"
  lastError,            \* lastError
  \* ---- history variables
  delays,               \* the sleep(ms) calls, in order
  errors                \* the failure of each attempt so far

llmVars == <<attempt, llmPc, lastError, delays, errors>>

VARIABLES
  \* ---- Scraper and the options of the scrape() call (scraper/index.ts)
  cfgForceTier,         \* this.config.forceTier, "none" when undefined
  optForceTier,         \* options.forceTier, "none" when undefined
  \* ---- Scraper.scrape
  scrapePc,             \* the suspension point scrape() is at
  tier1Error,           \* tier1Error
  tier2Error,           \* tier2Error
  scrapeResult,         \* the ScrapeResult returned
  scrapeError,          \* the error scrape() rejected with
  \* ---- history variables
  invoked,              \* the tiers invoked, in order
  outcomes              \* what each invoked tier settled with

scrapeVars == <<cfgForceTier, optForceTier, scrapePc, tier1Error, tier2Error,
                scrapeResult, scrapeError, invoked, outcomes>>

VARIABLES
  \* ---- Scraper.scrapeMany
  urls,                 \* the urls argument: url k is the number k
  concurrency,          \* the concurrency argument
  manyPc,               \* "idle" | "await" | "returned"
  queue,                \* queue
  results,              \* results
  batch,                \* the urls of the batch in progress
  settled,              \* per scrape of the batch: "pending" | "fulfilled" | "rejected"
  \* ---- history variables
  started,              \* the urls scrape() was called for, in order
  failed                \* the urls whose scrape() rejected

manyVars == <<urls, concurrency, manyPc, queue, results, batch, settled, started,
              failed>>

scraperVars == <<scrapeVars, manyVars>>

VARIABLES
  \* ---- validateUrl and its callers (security/url-validator.ts)
  rawUrl,               \* the url a run(), a scrape() or validateUrl itself is given
  allowedDomains,       \* options.allowedDomains, {} when undefined or empty
  blockedDomains,       \* options.blockedDomains, {} when undefined or empty
  urlPc,                \* "idle" | "resolve" | "returned" | "thrown"
  validUrl,             \* the href validateUrl returned to its caller
  urlError,             \* the UrlValidationError validateUrl threw
  \* ---- history variables
  lookups,              \* number of DNS lookups validateUrl started
  dnsAnswer,            \* what the DNS lookup settled with
  requested,            \* the HTTP fetches and page navigations issued
  accepted              \* the hrefs validateUrl has returned

urlVars == <<rawUrl, allowedDomains, blockedDomains, urlPc, validUrl, urlError, lookups,
             dnsAnswer, requested, accepted>>

VARIABLES
  \* ---- formatActionForHistory and validateAction applied to one action
  fmtAction,            \* the AgentAction given
  fmtIter,              \* the iteration given
  fmtPc,                \* "idle" | "formatted" | "parsed"
  formatted,            \* what formatActionForHistory returned
  reparsed,             \* what validateAction made of formatted
  revalidated           \* what validateAction made of the action itself

formatVars == <<fmtAction, fmtIter, fmtPc, formatted, reparsed, revalidated>>

VARIABLES
  \* ---- the singleton browser of an agent without a pool, or of Tier3Browser
  holder,               \* "agent" | "tier3": whose fields these are
  browser,              \* this.browser: 0 for null, else the launch that made it
  browserPromise,       \* this.browserPromise: 0 for null, else the launch it is of
  alive,                \* the browsers whose isConnected() is true
  pendingLaunch,        \* the launches whose launchStealthBrowser is in flight
  failedLaunch,         \* the launches whose launchStealthBrowser rejected
  launches,             \* number of launches started
  getPc,                \* per caller: "idle" | "awaiting" | "returned" | "threw"
  awaited,              \* per caller: the launch whose promise it was handed, 0 for none
  singleClosePc         \* "idle" | "closing": progress of close()

launchVars == <<holder, browser, browserPromise, alive, pendingLaunch, failedLaunch,
                launches, getPc, awaited, singleClosePc>>

otherVars == <<formatVars, launchVars>>

vars == <<poolVars, runVars, llmVars, scraperVars, urlVars, otherVars>>

\* ----------------------------------------------------- values of the run
ZeroUsage == [totalTokens |-> 0, calls |-> 0]
NoAction == [type |-> "none", text |-> <<>>]
\* data: null, and error: undefined, of an AgentResult.
Null == <<"null">>
Undefined == <<"undefined">>
NoResult == [status |-> "none", kind |-> "none", tier |-> "none", totalTokens |-> 0,
             calls |-> 0, nActions |-> 0, acts |-> <<>>, data |-> Null,
             error |-> Undefined, report |-> <<>>, schema |-> "none", iter |-> 0]
NoGuards == [aborted |-> FALSE, late |-> FALSE, budget |-> FALSE]

\* No run in progress.
RunIdle ==
  /\ maxIterations = 1 /\ maxTotalTokens = 0 /\ visionAvailable = FALSE
  /\ poolAttached = FALSE /\ signalAborted = FALSE
  /\ runPc = "idle" /\ staticLoopUsage = ZeroUsage /\ browserFrom = "none"
  /\ contextOpen = FALSE /\ pageOpen = FALSE /\ releases = 0 /\ result = NoResult
  /\ i = 0 /\ actions = <<>> /\ history = <<>> /\ usage = ZeroUsage
  /\ recentActionKeys = <<>> /\ consecutiveFailures = 0 /\ useVision = FALSE
  /\ action = NoAction
  /\ guards = NoGuards /\ abortIter = -1 /\ abortSeen = "none"
  /\ lastSnapIter = -1 /\ lastLlmIter = -1 /\ lastExecIter = -1 /\ requests = 0
  /\ shots = <<>> /\ peakFailures = 0 /\ events = <<>> /\ thrownBy = "none"

NoError == [api |-> FALSE, status |-> -1, msg |-> <<>>]

\* No ScrapeResult, and no scrape() call in progress.
NoScrape == [kind |-> "none"]
ScrapeIdle ==
  /\ cfgForceTier = "none" /\ optForceTier = "none" /\ scrapePc = "idle"
  /\ tier1Error = Null /\ tier2Error = Null /\ scrapeResult = NoScrape
  /\ scrapeError = Null /\ invoked = <<>> /\ outcomes = <<>>

\* No scrapeMany() call in progress.
ManyIdle ==
  /\ urls = <<>> /\ concurrency = 1 /\ manyPc = "idle" /\ queue = <<>>
  /\ results = <<>> /\ batch = <<>> /\ settled = <<>> /\ started = <<>>
  /\ failed = {}

\* A JavaScript value: an object (an action record) or a string (a text).
JsNone == [js |-> "undefined", object |-> NoAction, string |-> <<>>]
JsObject(o) == [js |-> "object", object |-> o, string |-> <<>>]
JsString(t) == [js |-> "string", object |-> NoAction, string |-> t]

\* Nothing formatted or validated.
FormatQuiet ==
  /\ fmtPc = "idle" /\ formatted = JsNone /\ reparsed = JsNone /\ revalidated = JsNone
FormatIdle == fmtAction = NoAction /\ fmtIter = 0 /\ FormatQuiet

\* No browser, no promise, no caller.
SingleQuiet ==
  /\ browser = 0
  /\ browserPromise = 0
  /\ alive = {}
  /\ pendingLaunch = {}
  /\ failedLaunch = {}
  /\ launches = 0
  /\ getPc = [c \in Clients |-> "idle"]
  /\ awaited = [c \in Clients |-> 0]
  /\ singleClosePc = "idle"

SingleIdle == holder = "agent" /\ SingleQuiet

OtherIdle == FormatIdle /\ SingleIdle

\* No decideAction call in progress.
LLMIdle ==
  /\ attempt = 0 /\ llmPc = "idle" /\ lastError = NoError /\ delays = <<>> /\ errors = <<>>

\* ------------------------------------------------------- array helpers (JS)
Range(s) == {s[k] : k \in 1..Len(s)}

\* Array.prototype.indexOf: first index of x in s, 0 when absent.
IndexOf(s, x) ==
  IF x \in Range(s) THEN CHOOSE k \in 1..Len(s) : s[k] = x /\ \A j \in 1..(k-1) : s[j] # x
  ELSE 0

\* idx = s.indexOf(x); if (idx >= 0) s.splice(idx, 1)
Splice(s, x) ==
  LET k == IndexOf(s, x) IN
  IF k = 0 THEN s ELSE SubSeq(s, 1, k-1) \o SubSeq(s, k+1, Len(s))

\* ------------------------------------------------------------- validateUrl
ALLOWED_PROTOCOLS == {"http:", "https:"}

\* A host name or an address is the sequence of its dot-separated labels.
BLOCKED_HOSTS == {<<"localhost">>, <<"[::1]">>}

\* The texts validateUrl is given.
UrlTexts ==
  { <<"https://ok.example/">>, <<"https://ok.example">>, <<"https://blocked.example/">>,
    <<"https://sub.blocked.example/">>, <<"https://other.example/">>,
    <<"ftp://ok.example/">>, <<"http://localhost/">>, <<"http://10.0.0.1/">>,
    <<"not a url">> }

\* The url of a run() or a scrape().
StartUrls ==
  {<<"https://ok.example/">>, <<"https://blocked.example/">>, <<"http://10.0.0.1/">>}

\* new URL(rawUrl): Unparsable when it throws, otherwise the protocol, the
\* hostname and the normalised href.
Unparsable == [protocol |-> "none", hostname |-> <<>>, href |-> <<>>]
ParseUrl(t) ==
  CASE t = <<"https://ok.example/">> ->
         [protocol |-> "https:", hostname |-> <<"ok", "example">>,
          href |-> <<"https://ok.example/">>]
    [] t = <<"https://ok.example">> ->
         [protocol |-> "https:", hostname |-> <<"ok", "example">>,
          href |-> <<"https://ok.example/">>]
    [] t = <<"https://blocked.example/">> ->
         [protocol |-> "https:", hostname |-> <<"blocked", "example">>, href |-> t]
    [] t = <<"https://sub.blocked.example/">> ->
         [protocol |-> "https:", hostname |-> <<"sub", "blocked", "example">>, href |-> t]
    [] t = <<"https://other.example/">> ->
         [protocol |-> "https:", hostname |-> <<"other", "example">>, href |-> t]
    [] t = <<"ftp://ok.example/">> ->
         [protocol |-> "ftp:", hostname |-> <<"ok", "example">>, href |-> t]
    [] t = <<"http://localhost/">> ->
         [protocol |-> "http:", hostname |-> <<"localhost">>, href |-> t]
    [] t = <<"http://10.0.0.1/">> ->
         [protocol |-> "http:", hostname |-> <<"10", "0", "0", "1">>, href |-> t]
    [] OTHER -> Unparsable

\* isPrivateIp: the IPv4 patterns of PRIVATE_IP_RANGES that the addresses of
\* the model can match (each pattern is a prefix that ends with a dot).
IsPrivateIp(ip) ==
  \/ Len(ip) >= 2 /\ ip[1] \in {"127", "10", "0"}
  \/ Len(ip) >= 3 /\ ip[1] = "192" /\ ip[2] = "168"
  \/ Len(ip) >= 3 /\ ip[1] = "169" /\ ip[2] = "254"

\* hostname === d || hostname.endsWith(`.${d}`)
MatchesDomain(hostname, d) ==
  \/ hostname = d
  \/ /\ Len(hostname) > Len(d)
     /\ SubSeq(hostname, Len(hostname) - Len(d) + 1, Len(hostname)) = d

\* The steps of validateUrl before its await with a match on the allow list
\* ending the checks.
UrlSyncErrorAllowWins(raw, allow, block) ==
  LET parsed == ParseUrl(raw)
      hostname == parsed.hostname
  IN IF parsed = Unparsable THEN "Invalid URL"
     ELSE IF parsed.protocol \notin ALLOWED_PROTOCOLS THEN "Blocked protocol"
     ELSE IF hostname \in BLOCKED_HOSTS THEN "Blocked host"
     ELSE IF IsPrivateIp(hostname) THEN "Blocked private IP"
     ELSE IF allow # {} /\ \E d \in allow : MatchesDomain(hostname, d) THEN "none"
     ELSE IF allow # {} THEN "not in the allowedDomains list"
     ELSE IF block # {} /\ \E d \in block : MatchesDomain(hostname, d)
     THEN "in the blockedDomains list"
     ELSE "none"

\* The steps of validateUrl before its await: the message of the error it
\* throws, "none" when it goes on to the DNS lookup.
UrlSyncError(raw, allow, block) ==
  LET parsed == ParseUrl(raw)
      hostname == parsed.hostname
  IN IF parsed = Unparsable THEN "Invalid URL"
     ELSE IF parsed.protocol \notin ALLOWED_PROTOCOLS THEN "Blocked protocol"
     ELSE IF hostname \in BLOCKED_HOSTS THEN "Blocked host"
     ELSE IF IsPrivateIp(hostname) THEN "Blocked private IP"
     ELSE IF allow # {} /\ ~\E d \in allow : MatchesDomain(hostname, d)
     THEN "not in the allowedDomains list"
     ELSE IF block # {} /\ \E d \in block : MatchesDomain(hostname, d)
     THEN "in the blockedDomains list"
     ELSE "none"

\* No DNS lookup has settled.
NoAnswer == [kind |-> "none", addresses |-> {}]

\* What dns.resolve(hostname) settles with: a rejection, or addresses.
DnsOutcomes ==
  {[kind |-> "error", addresses |-> {}]} \cup
  {[kind |-> "addresses", addresses |-> S] :
      S \in (SUBSET {<<"93", "184", "216", "34">>, <<"10", "0", "0", "1">>}) \ {{}}}

\* The try/catch around the lookup: the message of the error thrown, "none"
\* when validateUrl returns.
UrlDnsError(out) ==
  IF out.kind = "error" THEN "DNS resolution failed"
  ELSE IF \E addr \in out.addresses : IsPrivateIp(addr) THEN "DNS rebinding detected"
  ELSE "none"

\* No validateUrl call in progress, nothing requested.
UrlQuiet ==
  /\ allowedDomains = {} /\ blockedDomains = {<<"blocked", "example">>}
  /\ urlPc = "idle" /\ validUrl = Null /\ urlError = Null
  /\ lookups = 0 /\ dnsAnswer = NoAnswer /\ requested = {} /\ accepted = {}
UrlIdle == rawUrl = <<"https://ok.example/">> /\ UrlQuiet

\* validateUrl is called: the checks up to the await of the DNS lookup.
ValidateUrl ==
  /\ UNCHANGED <<poolVars, runVars, llmVars, scraperVars, otherVars>>
  /\ urlPc = "idle"
  /\ LET err == UrlSyncError(rawUrl, allowedDomains, blockedDomains) IN
       IF err # "none"
       THEN /\ urlPc' = "thrown"
            /\ urlError' = err
            /\ UNCHANGED lookups
       ELSE /\ urlPc' = "resolve"
            /\ lookups' = lookups + 1
            /\ UNCHANGED urlError
  /\ UNCHANGED <<rawUrl, allowedDomains, blockedDomains, validUrl, dnsAnswer, requested,
                 accepted>>

\* The DNS lookup settled: validateUrl throws or returns parsed.href.
ResolveDone ==
  /\ UNCHANGED <<poolVars, runVars, llmVars, scraperVars, otherVars>>
  /\ urlPc = "resolve"
  /\ \E out \in DnsOutcomes :
       LET err == UrlDnsError(out) IN
       /\ dnsAnswer' = out
       /\ IF err # "none"
          THEN /\ urlPc' = "thrown"
               /\ urlError' = err
               /\ UNCHANGED <<validUrl, accepted>>
          ELSE /\ urlPc' = "returned"
               /\ validUrl' = ParseUrl(rawUrl).href
               /\ accepted' = accepted \cup {ParseUrl(rawUrl).href}
               /\ UNCHANGED urlError
  /\ UNCHANGED <<rawUrl, allowedDomains, blockedDomains, lookups, requested>>

NextUrl ==
  \/ ValidateUrl
  \/ ResolveDone

\* ------------------------------------------------------------- BrowserPool
NoOp == [kind |-> "none", client |-> 0, pending |-> 0]

PoolEmpty ==
  /\ browsers = <<>>
  /\ available = <<>>
  /\ waitQueue = <<>>
  /\ timers = {}
  /\ closed = FALSE
  /\ connected = {}
  /\ closing = {}
  /\ closeWait = {}
  /\ closePc = "open"
  /\ launched = 0
  /\ pc = [c \in Clients |-> "idle"]
  /\ held = [c \in Clients |-> NoBrowser]
  /\ arrived = <<>>
  /\ lastOp = NoOp

\* PopIdle with available[length-1] read but not popped.
PopIdlePeek(avail, live, conn) ==
  IF Len(avail) > 0 /\ avail[Len(avail)] \in conn
  THEN [browser |-> avail[Len(avail)], avail |-> avail, live |-> live]
  ELSE [browser |-> NoBrowser, avail |-> <<>>, live |-> live]

\* acquire(), step 1: pop idle browsers until one is connected; the dead ones
\* are dropped from this.browsers.  Result: the browser found (or NoBrowser)
\* and the two arrays as the loop leaves them.
RECURSIVE PopIdle(_, _, _)
PopIdle(avail, live, conn) ==
  IF Len(avail) = 0 THEN [browser |-> NoBrowser, avail |-> avail, live |-> live]
  ELSE LET b == avail[Len(avail)]
           rest == SubSeq(avail, 1, Len(avail) - 1)
       IN IF b \in conn THEN [browser |-> b, avail |-> rest, live |-> live]
          ELSE PopIdle(rest, Splice(live, b), conn)

\* acquire() up to its first suspension point.
Acquire(c) ==
  /\ UNCHANGED <<runVars, llmVars, scraperVars, urlVars, otherVars>>
  /\ pc[c] = "idle"
  /\ IF closed
     THEN /\ lastOp' = [NoOp EXCEPT !.kind = "acquire_closed", !.client = c]
          /\ UNCHANGED <<browsers, available, waitQueue, timers, pc, held, arrived>>
     ELSE LET r == PopIdle(available, browsers, connected) IN
          /\ available' = r.avail
          /\ browsers' = r.live
          /\ IF r.browser # NoBrowser
             THEN /\ pc' = [pc EXCEPT ![c] = "holding"]
                  /\ held' = [held EXCEPT ![c] = r.browser]
                  /\ lastOp' = [NoOp EXCEPT !.kind = "acquire_idle", !.client = c]
                  /\ UNCHANGED <<waitQueue, timers, arrived>>
             ELSE IF Len(r.live) < maxSize
             THEN /\ launched + Cardinality({d \in Clients : pc[d] = "launching"}) < MaxLaunch
                  /\ pc' = [pc EXCEPT ![c] = "launching"]
                  /\ lastOp' = [NoOp EXCEPT !.kind = "acquire_launch", !.client = c]
                  /\ UNCHANGED <<waitQueue, timers, held, arrived>>
             ELSE /\ waitQueue' = Append(waitQueue, c)
                  /\ timers' = timers \cup {c}
                  /\ arrived' = Append(arrived, c)
                  /\ pc' = [pc EXCEPT ![c] = "waiting"]
                  /\ lastOp' = [NoOp EXCEPT !.kind = "acquire_wait", !.client = c]
                  /\ UNCHANGED held
  /\ UNCHANGED <<maxSize, closed, connected, closing, closeWait, closePc, launched>>

\* chromium.launch resolved: push the browser, register the handler, return it.
LaunchDone(c) ==
  /\ UNCHANGED <<runVars, llmVars, scraperVars, urlVars, otherVars>>
  /\ pc[c] = "launching"
  /\ LET b == launched + 1 IN
     /\ launched' = b
     /\ connected' = connected \cup {b}
     /\ browsers' = Append(browsers, b)
     /\ pc' = [pc EXCEPT ![c] = "holding"]
     /\ held' = [held EXCEPT ![c] = b]
     /\ lastOp' = [NoOp EXCEPT !.kind = "launched", !.client = c]
  /\ UNCHANGED <<maxSize, available, waitQueue, timers, closed, closing, closeWait,
                 closePc, arrived>>

\* chromium.launch rejected: acquire() rejects with the launch error.
LaunchFail(c) ==
  /\ UNCHANGED <<runVars, llmVars, scraperVars, urlVars, otherVars>>
  /\ pc[c] = "launching"
  /\ pc' = [pc EXCEPT ![c] = "idle"]
  /\ lastOp' = [NoOp EXCEPT !.kind = "launch_failed", !.client = c]
  /\ UNCHANGED <<maxSize, browsers, available, waitQueue, timers, closed, connected,
                 closing, closeWait, closePc, launched, held, arrived>>

\* promise settlement: only a pending promise changes state.
Resolve(pcs, w, b) == IF pcs[w] = "waiting" THEN [pcs EXCEPT ![w] = "holding"] ELSE pcs
Reject(pcs, w) == IF pcs[w] = "waiting" THEN [pcs EXCEPT ![w] = "idle"] ELSE pcs

\* RemoveWaiter with the queue left as it is.
RemoveWaiterKeep(q, c) == q

\* idx = waitQueue.findIndex(w => w.resolve === resolve); splice(idx, 1)
RemoveWaiter(q, c) == Splice(q, c)

\* The waiter's setTimeout callback.
TimerFire(c) ==
  /\ UNCHANGED <<runVars, llmVars, scraperVars, urlVars, otherVars>>
  /\ c \in timers
  /\ timers' = timers \ {c}
  /\ waitQueue' = RemoveWaiter(waitQueue, c)
  /\ pc' = Reject(pc, c)
  /\ arrived' = IF pc[c] = "waiting" THEN Splice(arrived, c) ELSE arrived
  /\ lastOp' = [NoOp EXCEPT !.kind = "timeout", !.client = c]
  /\ UNCHANGED <<maxSize, browsers, available, closed, connected, closing, closeWait,
                 closePc, launched, held>>

\* NextWaiter with pop() in place of shift(): the newest waiter.
NextWaiterNewest(q) == q[Len(q)]

\* The waiter release() hands the browser to.
NextWaiter(q) == q[1]
RestWaiters(q) == SubSeq(q, 2, Len(q))

\* release(browser) by the consumer that holds it.
Release(c) ==
  /\ UNCHANGED <<runVars, llmVars, scraperVars, urlVars, otherVars>>
  /\ pc[c] = "holding"
  /\ LET b == held[c] IN
     IF closed
     THEN /\ closing' = closing \cup ({b} \cap connected)
          /\ pc' = [pc EXCEPT ![c] = "idle"]
          /\ held' = [held EXCEPT ![c] = NoBrowser]
          /\ lastOp' = [NoOp EXCEPT !.kind = "release_closed", !.client = c]
          /\ UNCHANGED <<browsers, available, waitQueue, timers, arrived>>
     ELSE IF b \notin connected
     THEN /\ browsers' = Splice(browsers, b)
          /\ pc' = [pc EXCEPT ![c] = "idle"]
          /\ held' = [held EXCEPT ![c] = NoBrowser]
          /\ lastOp' = [NoOp EXCEPT !.kind = "release_dead", !.client = c]
          /\ UNCHANGED <<available, waitQueue, timers, closing, arrived>>
     ELSE IF Len(waitQueue) > 0
     THEN LET w == NextWaiter(waitQueue) IN
          /\ waitQueue' = RestWaiters(waitQueue)
          /\ timers' = timers \ {w}
          /\ pc' = [Resolve(pc, w, b) EXCEPT ![c] = "idle"]
          /\ held' = [held EXCEPT ![c] = NoBrowser,
                                  ![w] = IF pc[w] = "waiting" THEN b ELSE held[w]]
          /\ arrived' = IF pc[w] = "waiting" THEN Splice(arrived, w) ELSE arrived
          /\ lastOp' = [kind |-> "handoff", client |-> w, pending |-> Len(waitQueue)]
          /\ UNCHANGED <<browsers, available, closing>>
     ELSE /\ available' = Append(available, b)
          /\ pc' = [pc EXCEPT ![c] = "idle"]
          /\ held' = [held EXCEPT ![c] = NoBrowser]
          /\ lastOp' = [NoOp EXCEPT !.kind = "release_idle", !.client = c]
          /\ UNCHANGED <<browsers, waitQueue, timers, closing, arrived>>
  /\ UNCHANGED <<maxSize, closed, connected, closeWait, closePc, launched>>

\* DropDisconnected with the array left as it is.
KeepDisconnected(arr, b) == arr

\* The handler's idx = arr.indexOf(browser); if (idx >= 0) arr.splice(idx, 1)
DropDisconnected(arr, b) == Splice(arr, b)

\* The browser's connection ends (crash, or a close() completing): isConnected()
\* turns false and the "disconnected" handler of acquire() runs.
Disconnect(b) ==
  /\ UNCHANGED <<runVars, llmVars, scraperVars, urlVars, otherVars>>
  /\ b \in connected
  /\ connected' = connected \ {b}
  /\ browsers' = DropDisconnected(browsers, b)
  /\ available' = DropDisconnected(available, b)
  /\ closing' = closing \ {b}
  /\ closeWait' = closeWait \ {b}
  /\ lastOp' = [NoOp EXCEPT !.kind = "disconnected"]
  /\ UNCHANGED <<maxSize, waitQueue, timers, closed, closePc, launched, pc, held,
                 arrived>>

\* close() up to its await: set closed, reject the waiters, start closing.
PoolClose ==
  /\ UNCHANGED <<runVars, llmVars, scraperVars, urlVars, otherVars>>
  /\ closePc # "closing"
  /\ closed' = TRUE
  /\ timers' = timers \ Range(waitQueue)
  /\ pc' = [c \in Clients |-> IF c \in Range(waitQueue) THEN Reject(pc, c)[c] ELSE pc[c]]
  /\ arrived' = SelectSeq(arrived, LAMBDA w : w \notin Range(waitQueue))
  /\ waitQueue' = <<>>
  /\ closing' = closing \cup (Range(browsers) \cap connected)
  /\ closeWait' = Range(browsers) \cap connected
  /\ closePc' = "closing"
  /\ lastOp' = [NoOp EXCEPT !.kind = "close"]
  /\ UNCHANGED <<maxSize, browsers, available, connected, launched, held>>

\* close() after Promise.allSettled: empty both arrays.
PoolCloseDone ==
  /\ UNCHANGED <<runVars, llmVars, scraperVars, urlVars, otherVars>>
  /\ closePc = "closing"
  /\ closeWait = {}
  /\ browsers' = <<>>
  /\ available' = <<>>
  /\ closePc' = "closed"
  /\ lastOp' = [NoOp EXCEPT !.kind = "close_done"]
  /\ UNCHANGED <<maxSize, waitQueue, timers, closed, connected, closing, closeWait,
                 launched, pc, held, arrived>>

NextPool ==
  \/ \E c \in Clients : Acquire(c)
  \/ \E c \in Clients : LaunchDone(c)
  \/ \E c \in Clients : LaunchFail(c)
  \/ \E c \in Clients : TimerFire(c)
  \/ \E c \in Clients : Release(c)
  \/ \E b \in BrowserIds : Disconnect(b)
  \/ PoolClose
  \/ PoolCloseDone

InitPool ==
  /\ maxSize \in 1..MaxPoolSize
  /\ PoolEmpty
  /\ RunIdle
  /\ LLMIdle
  /\ ScrapeIdle
  /\ ManyIdle
  /\ UrlIdle
  /\ OtherIdle

SpecPool == InitPool /\ [][NextPool]_vars

\* ------------------------------------------------------------ loop.ts values
RECENT_WINDOW == 9
MAX_OCCURRENCES == 3
VISION_ESCALATION_THRESHOLD == 3

\* What the LLM may answer.  A text is a sequence of characters: "sp" is a
\* blank, "dq" and "sq" the two quotes, "bs" a backslash, others ordinary.
RawReplies ==
  { [type |-> "click", text |-> <<"a", "sp", "sp", "b">>],
    [type |-> "click", text |-> <<"sp">>],
    [type |-> "goto",  text |-> <<"https://ok.example/">>],
    [type |-> "goto",  text |-> <<"https://blocked.example/">>],
    [type |-> "goto",  text |-> <<"not a url">>],
    [type |-> "done",  text |-> <<"r">>],
    [type |-> "done",  text |-> <<"FAILED:", "sp", "r">>],
    [type |-> "done",  text |-> <<"FAILED:", "sp">>] }

\* String.prototype.trim
RECURSIVE Trim(_)
Trim(t) ==
  IF Len(t) = 0 THEN t
  ELSE IF t[1] = "sp" THEN Trim(SubSeq(t, 2, Len(t)))
  ELSE IF t[Len(t)] = "sp" THEN Trim(SubSeq(t, 1, Len(t) - 1))
  ELSE t

\* z.string().url() on the texts the LLM may send.
IsUrl(t) == t \in {<<"https://ok.example/">>, <<"https://blocked.example/">>}

\* Validate with every answer let through as it is.
ValidateAnything(raw) == raw

\* validateAction: the validated action, NoAction when it throws.  A selector
\* is trimmed and must not be empty, a goto's url must be a URL.
Validate(raw) ==
  IF raw.type = "click"
  THEN IF Len(Trim(raw.text)) = 0 THEN NoAction ELSE [raw EXCEPT !.text = Trim(raw.text)]
  ELSE IF raw.type = "goto" THEN (IF IsUrl(raw.text) THEN raw ELSE NoAction)
  ELSE IF raw.type = "done" THEN raw
  ELSE NoAction

\* validateUrl with every url let through.
UrlAcceptedAlways(url, resolves) == TRUE

\* validateUrl under the lists of the run or the scraper: resolves tells
\* whether the DNS lookup gave only public addresses.
UrlAccepted(url, resolves) ==
  UrlSyncError(url, allowedDomains, blockedDomains) = "none" /\ resolves

\* A fetch or a navigation is issued.
Request(via, url) == requested' = requested \cup {[via |-> via, url |-> url]}

\* The frame of a caller of validateUrl.
UrlCallerFrame ==
  UNCHANGED <<rawUrl, allowedDomains, blockedDomains, urlPc, urlError, lookups, dnsAnswer>>

\* The outcomes of the DNS lookup validateUrl makes: only a goto has one.
Lookups(raw) == IF raw.type = "goto" THEN BOOLEAN ELSE {TRUE}

\* parseAndValidateAction: validateAction, then validateUrl for a goto.
ParseAndValidate(raw, resolves) ==
  LET a == Validate(raw) IN
  IF a.type = "goto" /\ ~UrlAccepted(a.text, resolves) THEN NoAction ELSE a

\* ------------------------------------ formatActionForHistory, validateAction
\* The decimal text of an iteration number.
IterText(n) == <<"0", "1", "2", "3", "4", "5", "6", "7", "8", "9">>[n + 1]

\* A formatter whose output is the action itself.
FormatAsObject(a, iteration) == JsObject(a)

\* formatActionForHistory: the history line of the action, a string.
FormatActionForHistory(a, iteration) ==
  LET head == <<"[", IterText(iteration), "]", "sp">> IN
  JsString(
    IF a.type = "click" THEN head \o <<"click", "sp", "dq">> \o a.text \o <<"dq">>
    ELSE IF a.type = "goto" THEN head \o <<"navigate", "sp", "to", "sp">> \o a.text
    ELSE head \o <<"done:", "sp">> \o a.text)

\* validateAction on any value: actionSchema.safeParse fails on a value that
\* is no object, and validateAction throws (JsNone).
ValidateAction(v) ==
  IF v.js # "object" THEN JsNone
  ELSE IF Validate(v.object) = NoAction THEN JsNone
  ELSE JsObject(Validate(v.object))

\* The valid actions formatted: what validateAction returns for the replies.
ValidActions == {Validate(raw) : raw \in RawReplies} \ {NoAction}

\* formatActionForHistory(action, iteration) is called.
Format ==
  /\ UNCHANGED <<poolVars, runVars, llmVars, scraperVars, urlVars, launchVars>>
  /\ fmtPc = "idle"
  /\ formatted' = FormatActionForHistory(fmtAction, fmtIter)
  /\ fmtPc' = "formatted"
  /\ UNCHANGED <<fmtAction, fmtIter, reparsed, revalidated>>

\* validateAction is called on the formatter's output.
ParseFormatted ==
  /\ UNCHANGED <<poolVars, runVars, llmVars, scraperVars, urlVars, launchVars>>
  /\ fmtPc = "formatted"
  /\ reparsed' = ValidateAction(formatted)
  /\ fmtPc' = "parsed"
  /\ UNCHANGED <<fmtAction, fmtIter, formatted, revalidated>>

\* validateAction is called on the action itself.
Revalidate ==
  /\ UNCHANGED <<poolVars, runVars, llmVars, scraperVars, urlVars, launchVars>>
  /\ revalidated = JsNone
  /\ revalidated' = ValidateAction(JsObject(fmtAction))
  /\ UNCHANGED <<fmtAction, fmtIter, fmtPc, formatted, reparsed>>

NextFormat ==
  \/ Format
  \/ ParseFormatted
  \/ Revalidate

\* JSON.stringify of a string: a double quote and a backslash are escaped.
RECURSIVE Stringify(_)
Stringify(t) ==
  IF Len(t) = 0 THEN <<>>
  ELSE (IF t[1] \in {"dq", "bs"} THEN <<"bs", t[1]>> ELSE <<t[1]>>)
       \o Stringify(SubSeq(t, 2, Len(t)))

\* .replace(/['"]/g, "'").replace(/\s+/g, " ")
RECURSIVE Normalize(_)
Normalize(t) ==
  IF Len(t) = 0 THEN <<>>
  ELSE IF t[1] = "dq" THEN <<"sq">> \o Normalize(SubSeq(t, 2, Len(t)))
  ELSE IF t[1] = "sp" /\ Len(t) > 1 /\ t[2] = "sp" THEN Normalize(SubSeq(t, 2, Len(t)))
  ELSE <<t[1]>> \o Normalize(SubSeq(t, 2, Len(t)))

\* actionKey of a validated action.
ActionKey(a) == <<a.type>> \o Normalize(Stringify(a.text))

\* recentActionKeys.filter(k => k === actionKey).length
Occurrences(keys, key) == Cardinality({k \in 1..Len(keys) : keys[k] = key})

\* The loop-detection test.
IsStuck(keys, key) == Occurrences(keys, key) >= MAX_OCCURRENCES

\* The push of a key with the oldest key never dropped.
PushKeyNoShift(keys, key) == Append(keys, key)

\* recentActionKeys.push(actionKey); if (length > RECENT_WINDOW) shift()
PushKey(keys, key) ==
  LET k2 == Append(keys, key) IN
  IF Len(k2) > RECENT_WINDOW THEN SubSeq(k2, 2, Len(k2)) ELSE k2

\* IsFailed with the prefix never recognised.
IsFailedNever(a) == FALSE

\* action.result.startsWith("FAILED:")
IsFailed(a) == Len(a.text) > 0 /\ a.text[1] = "FAILED:"

\* action.result.slice(7).trim() || "The agent could not complete the task."
DefaultReason == <<"The agent could not complete the task.">>
FailedReason(a) ==
  LET tail == Trim(SubSeq(a.text, 2, Len(a.text))) IN
  IF tail = <<>> THEN DefaultReason ELSE tail

\* IsDone with no action taken for a done action.
IsDoneNever(a) == FALSE

\* action.type === "done"
IsDone(a) == a.type = "done"

\* The budget check.
BudgetExceeded(max, total) == max > 0 /\ total >= max

\* The guards at the top of an iteration, in the order the loop tests them.
\* FirstGuard without the poll of the signal.
FirstGuardNoAbort(g) ==
  IF g.late THEN "deadline"
  ELSE IF g.budget THEN "budget"
  ELSE "none"

\* FirstGuard with the budget tested before the deadline.
FirstGuardBudgetFirst(g) ==
  IF g.aborted THEN "abort"
  ELSE IF g.budget THEN "budget"
  ELSE IF g.late THEN "deadline"
  ELSE "none"

\* LoopEnds with one more iteration allowed.
LoopEndsLate(iter, max) == iter > max

\* The for loop's exit test, !(i < maxIterations).
LoopEnds(iter, max) == iter >= max

FirstGuard(g) ==
  IF g.aborted THEN "abort"
  ELSE IF g.late THEN "deadline"
  ELSE IF g.budget THEN "budget"
  ELSE "none"

\* Escalates without the test of visionAvailable.
EscalatesUnavailable(failures) ==
  ~useVision /\ failures >= VISION_ESCALATION_THRESHOLD

\* Escalates on every failure.
EscalatesAtOnce(failures) ==
  ~useVision /\ visionAvailable

\* The vision escalation test after a failure.
Escalates(failures) ==
  ~useVision /\ visionAvailable /\ failures >= VISION_ESCALATION_THRESHOLD

\* The counter with a STUCK detection resetting it as a success does.
CountedStuckResets(kind, failures) == IF kind \in {"OK", "STUCK"} THEN 0 ELSE failures + 1

\* consecutiveFailures after an iteration that ended as kind: "INVALID",
\* "STUCK" and "ERROR" count one failure, "OK" resets the counter.
Counted(kind, failures) == IF kind = "OK" THEN 0 ELSE failures + 1

\* A failed iteration: log the line, maybe activate vision.
FailureLines(kind, failures) ==
  <<[iter |-> i, kind |-> kind]>>
  \o (IF Escalates(failures) THEN <<[iter |-> i, kind |-> "VISION"]>> ELSE <<>>)

AddUsage(u, tokens) == [totalTokens |-> u.totalTokens + tokens, calls |-> u.calls + 1]

\* decideAction's error for a response with finish_reason = "length".
CutOff ==
  [api |-> FALSE, status |-> -1,
   msg |-> <<"LLM response cut off by token limit", "max_completion_tokens">>]

\* The failures one request can end in.  api: an OpenAI.APIError; status: its
\* HTTP status, -1 when it has none; msg: the words of the message.
Failures ==
  { [api |-> TRUE,  status |-> 429, msg |-> <<"rate limit">>],
    [api |-> TRUE,  status |-> 408, msg |-> <<"request timeout">>],
    [api |-> TRUE,  status |-> 500, msg |-> <<"server error">>],
    [api |-> TRUE,  status |-> 503, msg |-> <<"unavailable">>],
    [api |-> TRUE,  status |-> 400, msg |-> <<"bad request">>],
    [api |-> TRUE,  status |-> 401, msg |-> <<"unauthorized">>],
    [api |-> TRUE,  status |-> -1,  msg |-> <<"Connection error.">>],
    [api |-> FALSE, status |-> -1,  msg |-> <<"read", "ECONNRESET">>],
    [api |-> FALSE, status |-> -1,  msg |-> <<"connect", "ETIMEDOUT">>],
    [api |-> FALSE, status |-> -1,  msg |-> <<"socket hang up">>],
    [api |-> FALSE, status |-> -1,  msg |-> <<"fetch failed">>],
    CutOff,
    [api |-> FALSE, status |-> -1,  msg |-> <<"LLM returned empty response">>],
    [api |-> FALSE, status |-> -1,  msg |-> <<"Unexpected token">>] }

\* The errors a decideAction call of the run is taken to reject with.
Thrown == {CutOff, [api |-> TRUE, status |-> 401, msg |-> <<"unauthorized">>]}

\* ------------------------------------------------------------- Auspex.run
cfgVars == <<maxIterations, maxTotalTokens, visionAvailable>>
loopVars == <<i, actions, history, usage, recentActionKeys, consecutiveFailures,
              useVision, action>>
browserVars == <<browserFrom, contextOpen, pageOpen, releases>>
traceVars == <<guards, abortIter, abortSeen, lastSnapIter, lastLlmIter, lastExecIter>>

RunInit ==
  /\ maxIterations \in 1..MaxIter
  /\ maxTotalTokens \in {0, BudgetChoice}
  /\ visionAvailable \in BOOLEAN
  /\ poolAttached \in BOOLEAN
  /\ signalAborted \in BOOLEAN
  /\ runPc = "start" /\ staticLoopUsage = ZeroUsage /\ browserFrom = "none"
  /\ contextOpen = FALSE /\ pageOpen = FALSE /\ releases = 0 /\ result = NoResult
  /\ i = 0 /\ actions = <<>> /\ history = <<>> /\ usage = ZeroUsage
  /\ recentActionKeys = <<>> /\ consecutiveFailures = 0 /\ useVision = FALSE
  /\ action = NoAction
  /\ guards = NoGuards /\ abortIter = -1 /\ abortSeen = "none"
  /\ lastSnapIter = -1 /\ lastLlmIter = -1 /\ lastExecIter = -1 /\ requests = 0
  /\ shots = <<>> /\ peakFailures = 0 /\ events = <<>> /\ thrownBy = "none"

\* The finally block of run(): close page and context if the page exists,
\* then releaseBrowser.
Finally ==
  /\ pageOpen' = FALSE
  /\ contextOpen' = IF pageOpen THEN FALSE ELSE contextOpen
  /\ releases' = IF poolAttached THEN releases + 1 ELSE releases
  /\ runPc' = "returned"

\* generateReport: the sections of the report, in order.
GenerateReport(nActions, data) ==
  <<"HEADER">>
  \o (IF nActions > 0 THEN <<"STEP BY STEP">> ELSE <<>>)
  \o (IF data # Null THEN <<"RESULT">> ELSE <<>>)
  \o <<"RESOURCE USAGE">>

\* buildResult; kind names the branch that built it.
BuildResult(status, kind, tier, data, acts, us, err) ==
  [status |-> status, kind |-> kind, tier |-> tier, totalTokens |-> us.totalTokens,
   calls |-> us.calls, nActions |-> Len(acts),
   acts |-> [k \in 1..Len(acts) |-> acts[k].action],
   data |-> data, error |-> err, report |-> GenerateReport(Len(acts), data),
   schema |-> "none", iter |-> i]

\* The result of a done action.
DoneResult(a, tier, acts, us) ==
  IF IsFailed(a)
  THEN BuildResult("error", "failed", tier, Null, acts, us, FailedReason(a))
  ELSE BuildResult("done", "done", tier, a.text, acts, us, Undefined)

\* The result of a loop exit that is not a done action.
ExitResult(status, kind) ==
  BuildResult(status, kind, "playwright", Null, actions, usage, <<kind>>)

\* The loop's result for a rejected decideAction with the message left out.
LlmErrorUnnamed(err) ==
  BuildResult("error", "llm", "playwright", Null, actions, usage, <<"LLM error:">>)

\* The result of the loop when decideAction rejects.
LlmErrorResult(err) ==
  BuildResult("error", "llm", "playwright", Null, actions, usage,
              <<"LLM error:">> \o err.msg)

\* The schema option of run(): none, one the data satisfies, one it fails.
Schemas == {"none", "valid", "invalid"}

\* applySchema reads the option only for a done result with data.
SchemasRead(res) ==
  IF res.status = "done" /\ res.data # Null THEN Schemas ELSE {"none"}

\* JSON.parse of the data string followed by schema.parse.
ParseJson(t) == <<"json">> \o t

\* applySchema; the field schema records the branch taken.
ApplySchema(res, schema) ==
  IF schema = "none" \/ res.status # "done" \/ res.data = Null THEN res
  ELSE IF schema = "valid"
  THEN [res EXCEPT !.data = ParseJson(res.data), !.schema = "valid"]
  ELSE [res EXCEPT !.status = "error", !.error = <<"Schema validation failed">>,
                   !.data = Null, !.report = GenerateReport(res.nActions, Null),
                   !.schema = "invalid"]

\* this.emit("done", finalResult)
EmitDone(evs, res) == Append(evs, [ev |-> "done", iter |-> i, result |-> res])

\* runAgentLoop returned after the callbacks evs: add the static attempt's
\* usage, apply the schema, emit done, return, finally.
LoopReturns(res, evs) ==
  /\ \E schema \in SchemasRead(res) :
        LET finalResult ==
              ApplySchema(
                 [res EXCEPT
                    !.totalTokens = @ + (IF staticLoopUsage.calls > 0
                                         THEN staticLoopUsage.totalTokens ELSE 0),
                    !.calls = @ + (IF staticLoopUsage.calls > 0
                                   THEN staticLoopUsage.calls ELSE 0)],
                 schema)
        IN /\ result' = finalResult
           /\ events' = EmitDone(evs, finalResult)
  /\ Finally

\* The catch block of run(): an error result with empty usage and actions.
Caught ==
  /\ result' = BuildResult("error", "exception", "playwright", Null, <<>>, ZeroUsage,
                            <<"exception">>)
  /\ Finally

\* The call of acquireBrowser: pool.acquire() when a pool is attached, else
\* the singleton browser or its launch.
AcquireBrowser ==
  /\ runPc' = "acquire"
  /\ browserFrom' = IF poolAttached THEN "pool" ELSE "singleton"

\* run() up to its first await: parse the options, poll the signal.
RunStart ==
  /\ UNCHANGED <<poolVars, llmVars, scraperVars, urlVars, otherVars>>
  /\ UNCHANGED <<shots, peakFailures, events>>
  /\ runPc = "start"
  /\ \E optionsOk \in BOOLEAN :
       IF ~optionsOk
       THEN /\ runPc' = "thrown"
            /\ thrownBy' = "options"
            /\ UNCHANGED <<result, abortSeen>>
       ELSE IF signalAborted
       THEN /\ runPc' = "returned"
            /\ result' = BuildResult("aborted", "aborted", "http", Null, <<>>, ZeroUsage,
                                      <<"aborted">>)
            /\ abortSeen' = "run"
            /\ UNCHANGED thrownBy
       ELSE /\ runPc' = "validateUrl"
            /\ UNCHANGED <<result, abortSeen, thrownBy>>
  /\ UNCHANGED <<cfgVars, poolAttached, signalAborted, staticLoopUsage, browserVars,
                 loopVars, guards, abortIter, lastSnapIter, lastLlmIter, lastExecIter,
                 requests>>

\* validateUrl settled: throw, or start the HTTP fetch of validUrl.
ValidateUrlDone ==
  /\ UNCHANGED <<poolVars, llmVars, scraperVars, otherVars>>
  /\ UrlCallerFrame
  /\ UNCHANGED <<shots, peakFailures, events>>
  /\ runPc = "validateUrl"
  /\ \E resolves \in BOOLEAN :
       IF UrlAccepted(rawUrl, resolves)
       THEN /\ runPc' = "fetch"
            /\ validUrl' = ParseUrl(rawUrl).href
            /\ accepted' = accepted \cup {ParseUrl(rawUrl).href}
            /\ Request("fetch", ParseUrl(rawUrl).href)
            /\ UNCHANGED thrownBy
       ELSE /\ runPc' = "thrown"
            /\ thrownBy' = "url"
            /\ UNCHANGED <<validUrl, accepted, requested>>
  /\ UNCHANGED <<cfgVars, poolAttached, signalAborted, staticLoopUsage, browserVars,
                 result, loopVars, traceVars, requests>>

\* runStaticLoop with the poll of the signal left out.
StaticLoopNeverAborted(aborted) == FALSE

\* runStaticLoop's poll of the signal before its LLM call.
StaticLoopAborted(aborted) == aborted

\* gotScraping settled.  "static": html, status < 400 and more than 200
\* characters of text, so runStaticLoop is entered; "skip": anything else.
FetchDone ==
  /\ UNCHANGED <<poolVars, llmVars, scraperVars, urlVars, otherVars>>
  /\ UNCHANGED thrownBy
  /\ UNCHANGED <<shots, peakFailures, events>>
  /\ runPc = "fetch"
  /\ \E page \in {"static", "skip"} :
       /\ abortSeen' = IF page = "static" /\ signalAborted THEN "static" ELSE abortSeen
       /\ IF page = "static" /\ ~StaticLoopAborted(signalAborted)
          THEN /\ runPc' = "staticLlm"
               /\ requests' = requests + 1
               /\ UNCHANGED browserFrom
          ELSE /\ AcquireBrowser
               /\ UNCHANGED requests
  /\ UNCHANGED <<cfgVars, poolAttached, signalAborted, staticLoopUsage, contextOpen,
                 pageOpen, releases, result, loopVars, guards, abortIter, lastSnapIter,
                 lastLlmIter, lastExecIter>>

\* runStaticLoop with the rejection of decideAction passed on to run().
StaticLlmRethrows ==
  /\ runPc' = "thrown"
  /\ UNCHANGED <<staticLoopUsage, result, action, browserFrom, events>>

\* runStaticLoop after its decideAction rejected: fall back with the usage
\* still empty.
StaticLlmThrew ==
  /\ AcquireBrowser
  /\ UNCHANGED <<staticLoopUsage, result, action, events>>

\* runStaticLoop after its decideAction answered.
StaticLlmReturned(raw, resolves) ==
  LET us == [totalTokens |-> CallTokens, calls |-> 1]
      a == ParseAndValidate(raw, resolves)
  IN /\ staticLoopUsage' = us
     /\ action' = a
     /\ IF IsDone(a)
        THEN /\ runPc' = "returned"
             /\ \E schema \in SchemasRead(DoneResult(a, "http", <<>>, us)) :
                  LET finalResult ==
                        ApplySchema(
                           DoneResult(a, "http", <<[action |-> a, iteration |-> 0]>>, us),
                           schema)
                  IN /\ result' = finalResult
                     /\ events' = EmitDone(events, finalResult)
             /\ UNCHANGED browserFrom
        ELSE /\ AcquireBrowser
             /\ UNCHANGED <<result, events>>

\* What the static attempt leaves alone when its decideAction settles.
StaticLlmFrame ==
  /\ UNCHANGED <<poolVars, scraperVars, otherVars>>
  /\ UrlCallerFrame
  /\ UNCHANGED <<validUrl, requested>>
  /\ accepted' = IF action'.type = "goto"
                 THEN accepted \cup {ParseUrl(action'.text).href} ELSE accepted
  /\ UNCHANGED <<shots, peakFailures, thrownBy>>
  /\ UNCHANGED <<cfgVars, poolAttached, signalAborted, contextOpen, pageOpen, releases,
                 i, actions, history, usage, recentActionKeys, consecutiveFailures,
                 useVision, traceVars, requests>>

\* The static loop's decideAction settled.
StaticLlmDone ==
  /\ UNCHANGED llmVars
  /\ runPc = "staticLlm"
  /\ \/ StaticLlmThrew
     \/ \E raw \in RawReplies : \E resolves \in Lookups(raw) :
          StaticLlmReturned(raw, resolves)
  /\ StaticLlmFrame

\* acquireBrowser settled: the browser, or a rejection run() does not
\* catch, of pool.acquire() or of the singleton launch.
AcquireDone ==
  /\ UNCHANGED <<poolVars, llmVars, scraperVars, urlVars, otherVars>>
  /\ UNCHANGED <<shots, peakFailures, events>>
  /\ runPc = "acquire"
  /\ \E ok \in BOOLEAN :
       IF ok
       THEN /\ runPc' = "newContext"
            /\ UNCHANGED thrownBy
       ELSE /\ runPc' = "thrown"
            /\ thrownBy' = IF browserFrom = "pool" THEN "pool" ELSE "launch"
  /\ UNCHANGED <<cfgVars, poolAttached, signalAborted, staticLoopUsage, browserVars,
                 result, loopVars, traceVars, requests>>

\* browser.newContext settled; with cookies configured addCookies is next.
NewContextDone ==
  /\ UNCHANGED <<poolVars, llmVars, scraperVars, urlVars, otherVars>>
  /\ UNCHANGED thrownBy
  /\ UNCHANGED <<shots, peakFailures, events>>
  /\ runPc = "newContext"
  /\ \E ok \in BOOLEAN, cookies \in BOOLEAN :
       IF ok
       THEN /\ contextOpen' = TRUE
            /\ runPc' = IF cookies THEN "addCookies" ELSE "addInitScript"
            /\ UNCHANGED <<pageOpen, releases, result>>
       ELSE /\ Caught
  /\ UNCHANGED <<cfgVars, poolAttached, signalAborted, staticLoopUsage, browserFrom,
                 loopVars, traceVars, requests>>

\* context.addCookies settled.
AddCookiesDone ==
  /\ UNCHANGED <<poolVars, llmVars, scraperVars, urlVars, otherVars>>
  /\ UNCHANGED thrownBy
  /\ UNCHANGED <<shots, peakFailures, events>>
  /\ runPc = "addCookies"
  /\ \E ok \in BOOLEAN :
       IF ok
       THEN /\ runPc' = "addInitScript"
            /\ UNCHANGED <<contextOpen, pageOpen, releases, result>>
       ELSE /\ Caught
  /\ UNCHANGED <<cfgVars, poolAttached, signalAborted, staticLoopUsage, browserFrom,
                 loopVars, traceVars, requests>>

\* context.addInitScript settled.
AddInitScriptDone ==
  /\ UNCHANGED <<poolVars, llmVars, scraperVars, urlVars, otherVars>>
  /\ UNCHANGED thrownBy
  /\ UNCHANGED <<shots, peakFailures, events>>
  /\ runPc = "addInitScript"
  /\ \E ok \in BOOLEAN :
       IF ok
       THEN /\ runPc' = "newPage"
            /\ UNCHANGED <<contextOpen, pageOpen, releases, result>>
       ELSE /\ Caught
  /\ UNCHANGED <<cfgVars, poolAttached, signalAborted, staticLoopUsage, browserFrom,
                 loopVars, traceVars, requests>>

\* context.newPage settled.
NewPageDone ==
  /\ UNCHANGED <<poolVars, llmVars, scraperVars, otherVars>>
  /\ UrlCallerFrame
  /\ UNCHANGED <<validUrl, accepted>>
  /\ UNCHANGED thrownBy
  /\ UNCHANGED <<shots, peakFailures, events>>
  /\ runPc = "newPage"
  /\ \E ok \in BOOLEAN :
       IF ok
       THEN /\ pageOpen' = TRUE
            /\ runPc' = "goto"
            /\ Request("page", validUrl)
            /\ UNCHANGED <<contextOpen, releases, result>>
       ELSE /\ Caught
            /\ UNCHANGED requested
  /\ UNCHANGED <<cfgVars, poolAttached, signalAborted, staticLoopUsage, browserFrom,
                 loopVars, traceVars, requests>>

\* page.goto settled; on success runAgentLoop starts.
GotoDone ==
  /\ UNCHANGED <<poolVars, llmVars, scraperVars, urlVars, otherVars>>
  /\ UNCHANGED thrownBy
  /\ UNCHANGED <<shots, peakFailures, events>>
  /\ runPc = "goto"
  /\ \E ok \in BOOLEAN :
       IF ok
       THEN /\ runPc' = "top"
            /\ UNCHANGED <<contextOpen, pageOpen, releases, result>>
       ELSE /\ Caught
  /\ UNCHANGED <<cfgVars, poolAttached, signalAborted, staticLoopUsage, browserFrom,
                 loopVars, traceVars, requests>>

\* The top of an iteration: the for-condition, the abort, deadline and budget
\* checks, then the call of takeSnapshot.
IterTop ==
  /\ UNCHANGED <<poolVars, llmVars, scraperVars, urlVars, otherVars>>
  /\ UNCHANGED thrownBy
  /\ UNCHANGED <<shots, peakFailures>>
  /\ runPc = "top"
  /\ IF LoopEnds(i, maxIterations)
     THEN /\ LoopReturns(ExitResult("max_iterations", "max_iterations"), events)
          /\ UNCHANGED <<guards, lastSnapIter>>
     ELSE \E late \in BOOLEAN :
          LET g == [aborted |-> signalAborted, late |-> late,
                    budget |-> BudgetExceeded(maxTotalTokens, usage.totalTokens)]
              first == FirstGuard(g)
          IN /\ guards' = g
             /\ IF first = "abort"
                THEN /\ LoopReturns(ExitResult("aborted", "aborted"), events)
                     /\ UNCHANGED lastSnapIter
                ELSE IF first = "deadline"
                THEN /\ LoopReturns(ExitResult("timeout", "timeout"), events)
                     /\ UNCHANGED lastSnapIter
                ELSE IF first = "budget"
                THEN /\ LoopReturns(ExitResult("error", "budget"), events)
                     /\ UNCHANGED lastSnapIter
                ELSE /\ runPc' = "snapshot"
                     /\ lastSnapIter' = i
                     /\ UNCHANGED <<contextOpen, pageOpen, releases, result, events>>
  /\ action' = NoAction
  /\ UNCHANGED <<cfgVars, poolAttached, signalAborted, staticLoopUsage, browserFrom,
                 i, actions, history, usage, recentActionKeys, consecutiveFailures,
                 useVision, abortIter, abortSeen, lastLlmIter, lastExecIter, requests>>

\* The screenshot of the request: captured only when useVision is set, and
\* left out when captureScreenshot throws.
Screenshot(vision, captured) ==
  IF vision THEN (IF captured THEN "sent" ELSE "failed") ELSE "none"

\* takeSnapshot settled: it threw, the page is a block page, or the
\* screenshot is tried and decideAction is called.
SnapshotDone ==
  /\ UNCHANGED <<poolVars, llmVars, scraperVars, urlVars, otherVars>>
  /\ UNCHANGED thrownBy
  /\ UNCHANGED peakFailures
  /\ runPc = "snapshot"
  /\ \E snap \in {"throws", "blocked", "ok"} :
       IF snap = "throws"
       THEN /\ Caught
            /\ UNCHANGED <<lastLlmIter, requests, shots, events>>
       ELSE IF snap = "blocked"
       THEN /\ LoopReturns(ExitResult("error", "blocked"),
                            Append(events, [ev |-> "iteration", iter |-> i]))
            /\ UNCHANGED <<lastLlmIter, requests, shots>>
       ELSE /\ runPc' = "llm"
            /\ events' = Append(events, [ev |-> "iteration", iter |-> i])
            /\ lastLlmIter' = i
            /\ requests' = requests + 1
            /\ \E captured \in (IF useVision THEN BOOLEAN ELSE {TRUE}) :
                  shots' = Append(shots, Screenshot(useVision, captured))
            /\ UNCHANGED <<contextOpen, pageOpen, releases, result>>
  /\ UNCHANGED <<cfgVars, poolAttached, signalAborted, staticLoopUsage, browserFrom,
                 loopVars, guards, abortIter, abortSeen, lastSnapIter, lastExecIter>>

\* The onAction callback with the event left out.
OnActionSilent(evs, iter) == evs

\* The onAction callback of run(): the action event.
OnAction(evs, iter) == Append(evs, [ev |-> "action", iter |-> iter])

\* The loop after decideAction rejected: the run ends with an LLM error.
LlmThrew(err) ==
  /\ LoopReturns(LlmErrorResult(err), events)
  /\ UNCHANGED <<loopVars, lastExecIter>>

\* The loop after decideAction answered: invalid action, STUCK, done, or the
\* call of executeAction.
LlmReturned(raw, resolves) ==
  LET us == AddUsage(usage, CallTokens)
      a == ParseAndValidate(raw, resolves)
      key == ActionKey(a)
  IN /\ usage' = us
     /\ action' = a
     /\ IF a = NoAction
        THEN /\ consecutiveFailures' = Counted("INVALID", consecutiveFailures)
             /\ history' = history \o FailureLines("INVALID", Counted("INVALID", consecutiveFailures))
             /\ useVision' = (useVision \/ Escalates(Counted("INVALID", consecutiveFailures)))
             /\ i' = i + 1
             /\ runPc' = "top"
             /\ UNCHANGED <<actions, recentActionKeys, lastExecIter, contextOpen,
                            pageOpen, releases, result, events>>
        ELSE IF IsStuck(recentActionKeys, key)
        THEN /\ consecutiveFailures' = Counted("STUCK", consecutiveFailures)
             /\ history' = history \o FailureLines("STUCK", Counted("STUCK", consecutiveFailures))
             /\ useVision' = (useVision \/ Escalates(Counted("STUCK", consecutiveFailures)))
             /\ recentActionKeys' = <<>>
             /\ i' = i + 1
             /\ runPc' = "top"
             /\ UNCHANGED <<actions, lastExecIter, contextOpen, pageOpen, releases,
                            result, events>>
        ELSE LET acts == Append(actions, [action |-> a, iteration |-> i]) IN
             /\ recentActionKeys' = PushKey(recentActionKeys, key)
             /\ actions' = acts
             /\ IF IsDone(a)
                THEN /\ LoopReturns(DoneResult(a, "playwright", acts, us),
                                     OnAction(events, i))
                     /\ UNCHANGED <<i, history, consecutiveFailures, useVision,
                                    lastExecIter>>
                ELSE /\ runPc' = "exec"
                     /\ events' = OnAction(events, i)
                     /\ lastExecIter' = i
                     /\ UNCHANGED <<i, history, consecutiveFailures, useVision,
                                    contextOpen, pageOpen, releases, result>>

\* What the loop leaves alone when its decideAction settles.
LlmFrame ==
  /\ UNCHANGED <<poolVars, scraperVars, otherVars>>
  /\ UrlCallerFrame
  /\ UNCHANGED <<validUrl, requested>>
  /\ accepted' = IF action'.type = "goto"
                 THEN accepted \cup {ParseUrl(action'.text).href} ELSE accepted
  /\ UNCHANGED <<shots, thrownBy>>
  /\ peakFailures' = IF consecutiveFailures' > peakFailures
                     THEN consecutiveFailures' ELSE peakFailures
  /\ UNCHANGED <<cfgVars, poolAttached, signalAborted, staticLoopUsage, browserFrom,
                 guards, abortIter, abortSeen, lastSnapIter, lastLlmIter, requests>>

\* decideAction settled: LLM error, invalid action, STUCK, done, or the call
\* of executeAction.
LlmDone ==
  /\ UNCHANGED llmVars
  /\ runPc = "llm"
  /\ \/ \E err \in Thrown : LlmThrew(err)
     \/ \E raw \in RawReplies : \E resolves \in Lookups(raw) :
          LlmReturned(raw, resolves)
  /\ LlmFrame

\* executeAction settled, then the inter-iteration delay.
ExecDone ==
  /\ UNCHANGED <<poolVars, llmVars, scraperVars, otherVars>>
  /\ UrlCallerFrame
  /\ UNCHANGED validUrl
  /\ UNCHANGED thrownBy
  /\ UNCHANGED shots
  /\ events' = Append(events, [ev |-> "actionResult", iter |-> i])
  /\ runPc = "exec"
  /\ \E resolves \in Lookups(action) : \E settles \in BOOLEAN :
       LET navigates == action.type = "goto" /\ UrlAccepted(action.text, resolves)
           ok == settles /\ (action.type = "goto" => navigates)
       IN /\ IF navigates
             THEN /\ accepted' = accepted \cup {ParseUrl(action.text).href}
                  /\ Request("goto", ParseUrl(action.text).href)
             ELSE UNCHANGED <<accepted, requested>>
          /\ IF ok
             THEN /\ history' = Append(history, [iter |-> i, kind |-> "OK"])
                  /\ consecutiveFailures' = Counted("OK", consecutiveFailures)
                  /\ UNCHANGED useVision
             ELSE /\ consecutiveFailures' = Counted("ERROR", consecutiveFailures)
                  /\ history' = history \o FailureLines("ERROR", Counted("ERROR", consecutiveFailures))
                  /\ useVision' = (useVision \/ Escalates(Counted("ERROR", consecutiveFailures)))
  /\ action' = NoAction
  /\ i' = i + 1
  /\ runPc' = "top"
  /\ peakFailures' = IF consecutiveFailures' > peakFailures
                     THEN consecutiveFailures' ELSE peakFailures
  /\ UNCHANGED <<cfgVars, poolAttached, signalAborted, staticLoopUsage, browserVars,
                 result, actions, usage, recentActionKeys, traceVars, requests>>

RunInProgress == runPc \notin {"idle", "start", "returned", "thrown"}

\* The caller aborts the signal while run() is suspended.
Abort ==
  /\ UNCHANGED <<poolVars, llmVars, scraperVars, urlVars, otherVars>>
  /\ UNCHANGED thrownBy
  /\ UNCHANGED <<shots, peakFailures, events>>
  /\ RunInProgress
  /\ ~signalAborted
  /\ signalAborted' = TRUE
  /\ abortIter' = IF runPc \in {"snapshot", "llm", "exec"} THEN i
                  ELSE IF runPc = "top" /\ i > 0 THEN i - 1
                  ELSE -1
  /\ UNCHANGED <<cfgVars, poolAttached, runPc, staticLoopUsage, browserVars, result,
                 loopVars, guards, abortSeen, lastSnapIter, lastLlmIter, lastExecIter,
                 requests>>

\* The caller calls close() on the pool-attached agent during the run.
AgentClose ==
  /\ UNCHANGED <<poolVars, llmVars, scraperVars, urlVars, otherVars>>
  /\ UNCHANGED thrownBy
  /\ UNCHANGED <<shots, peakFailures, events>>
  /\ RunInProgress
  /\ poolAttached
  /\ poolAttached' = FALSE
  /\ UNCHANGED <<cfgVars, signalAborted, runPc, staticLoopUsage, browserVars, result,
                 loopVars, traceVars, requests>>

NextRun ==
  \/ RunStart
  \/ ValidateUrlDone
  \/ FetchDone
  \/ StaticLlmDone
  \/ AcquireDone
  \/ NewContextDone
  \/ AddCookiesDone
  \/ AddInitScriptDone
  \/ NewPageDone
  \/ GotoDone
  \/ IterTop
  \/ SnapshotDone
  \/ LlmDone
  \/ ExecDone
  \/ Abort
  \/ AgentClose

InitRun ==
  /\ maxSize = 1
  /\ PoolEmpty
  /\ RunInit
  /\ LLMIdle
  /\ ScrapeIdle
  /\ ManyIdle
  /\ rawUrl \in StartUrls
  /\ UrlQuiet
  /\ OtherIdle

SpecRun == InitRun /\ [][NextRun]_vars

\* ------------------------------------ the loop detection of a long run
\* The validated action of iteration n of a long run: the next of four
\* clicks in turn, or the first click again.
Answers(n) ==
  { [type |-> "click", text |-> <<"#", IterText(n % 4)>>],
    [type |-> "click", text |-> <<"#", IterText(0)>>] }

\* One iteration of runAgentLoop from its validated action on: the STUCK
\* branch, or the key pushed, the action recorded, reported and handed to
\* executeAction.  The calls before and the outcome of the execution are
\* left out.
LoopDetection ==
  /\ UNCHANGED <<poolVars, llmVars, scraperVars, urlVars, otherVars>>
  /\ runPc = "detect"
  /\ i < MaxSteps
  /\ \E a \in Answers(i) :
       LET key == ActionKey(a)
           failures == Counted("STUCK", consecutiveFailures)
       IN /\ action' = a
          /\ IF IsStuck(recentActionKeys, key)
             THEN /\ consecutiveFailures' = failures
                  /\ history' = history \o FailureLines("STUCK", failures)
                  /\ useVision' = (useVision \/ Escalates(failures))
                  /\ recentActionKeys' = <<>>
                  /\ UNCHANGED <<actions, events, lastExecIter>>
             ELSE /\ recentActionKeys' = PushKey(recentActionKeys, key)
                  /\ actions' = Append(actions, [action |-> a, iteration |-> i])
                  /\ events' = OnAction(events, i)
                  /\ lastExecIter' = i
                  /\ UNCHANGED <<history, consecutiveFailures, useVision>>
  /\ i' = i + 1
  /\ peakFailures' = IF consecutiveFailures' > peakFailures
                     THEN consecutiveFailures' ELSE peakFailures
  /\ UNCHANGED <<cfgVars, poolAttached, signalAborted, runPc, staticLoopUsage,
                 browserVars, result, usage, guards, abortIter, abortSeen, lastSnapIter,
                 lastLlmIter, requests, shots, thrownBy>>

\* runAgentLoop has just been entered.
InitDetect ==
  /\ maxSize = 1
  /\ PoolEmpty
  /\ LLMIdle
  /\ ScrapeIdle
  /\ ManyIdle
  /\ UrlIdle
  /\ OtherIdle
  /\ maxIterations = MaxSteps /\ maxTotalTokens = 0 /\ visionAvailable \in BOOLEAN
  /\ poolAttached = FALSE /\ signalAborted = FALSE
  /\ runPc = "detect" /\ staticLoopUsage = ZeroUsage /\ browserFrom = "singleton"
  /\ contextOpen = TRUE /\ pageOpen = TRUE /\ releases = 0 /\ result = NoResult
  /\ i = 0 /\ actions = <<>> /\ history = <<>> /\ usage = ZeroUsage
  /\ recentActionKeys = <<>> /\ consecutiveFailures = 0 /\ useVision = FALSE
  /\ action = NoAction
  /\ guards = NoGuards /\ abortIter = -1 /\ abortSeen = "none"
  /\ lastSnapIter = -1 /\ lastLlmIter = -1 /\ lastExecIter = -1 /\ requests = 0
  /\ shots = <<>> /\ peakFailures = 0 /\ events = <<>> /\ thrownBy = "none"

SpecDetect == InitDetect /\ [][LoopDetection]_vars

\* ------------------------------------------------- LLMClient.decideAction
MAX_RETRIES == 3
BASE_DELAY_MS == 1000

\* String.prototype.toLowerCase on one word.
ToLowerCase(w) ==
  IF w = "ECONNRESET" THEN "econnreset"
  ELSE IF w = "ETIMEDOUT" THEN "etimedout"
  ELSE w

\* msg.toLowerCase().includes(pattern)
Includes(msg, pattern) == \E k \in 1..Len(msg) : ToLowerCase(msg[k]) = pattern

\* isRetryableError with every failure retried.
isRetryableAlways(err) == TRUE

isRetryableError(err) ==
  IF err.api
  THEN err.status = 429 \/ err.status = 408 \/ (err.status # -1 /\ err.status >= 500)
  ELSE \/ Includes(err.msg, "econnreset") \/ Includes(err.msg, "etimedout")
       \/ Includes(err.msg, "socket hang up") \/ Includes(err.msg, "fetch failed")

RECURSIVE Pow2(_)
Pow2(n) == IF n <= 0 THEN 1 ELSE 2 * Pow2(n - 1)

\* BASE_DELAY_MS * Math.pow(2, attempt - 1)
RetryDelay(n) == BASE_DELAY_MS * Pow2(n - 1)

\* decideAction is called: the first attempt's request is sent.
DecideAction ==
  /\ UNCHANGED <<poolVars, runVars, scraperVars, urlVars, otherVars>>
  /\ llmPc = "idle"
  /\ attempt' = 1
  /\ llmPc' = "request"
  /\ UNCHANGED <<lastError, delays, errors>>

\* The request of this attempt settled: a parsed answer, or a failure that
\* is retried after a sleep or thrown.
RequestDone ==
  /\ UNCHANGED <<poolVars, runVars, scraperVars, urlVars, otherVars>>
  /\ llmPc = "request"
  /\ \/ /\ llmPc' = "returned"
        /\ UNCHANGED <<attempt, lastError, delays, errors>>
     \/ \E err \in Failures :
          /\ lastError' = err
          /\ errors' = Append(errors, err)
          /\ IF attempt < MAX_RETRIES /\ isRetryableError(err)
             THEN /\ delays' = Append(delays, RetryDelay(attempt))
                  /\ llmPc' = "sleep"
             ELSE /\ llmPc' = "thrown"
                  /\ UNCHANGED delays
          /\ UNCHANGED attempt

\* The sleep ended: the next attempt's request is sent.
SleepDone ==
  /\ UNCHANGED <<poolVars, runVars, scraperVars, urlVars, otherVars>>
  /\ llmPc = "sleep"
  /\ attempt' = attempt + 1
  /\ llmPc' = "request"
  /\ UNCHANGED <<lastError, delays, errors>>

NextLLM ==
  \/ DecideAction
  \/ RequestDone
  \/ SleepDone

InitLLM ==
  /\ maxSize = 1
  /\ PoolEmpty
  /\ RunIdle
  /\ LLMIdle
  /\ ScrapeIdle
  /\ ManyIdle
  /\ UrlIdle
  /\ OtherIdle

SpecLLM == InitLLM /\ [][NextLLM]_vars

\* ------------------------- run() with its LLM calls made by decideAction
\* A step of the decideAction call the run is suspended in.
CallStep ==
  /\ runPc \in {"staticLlm", "llm"}
  /\ NextLLM

\* The locals of the settled decideAction call are gone.
CallEnds ==
  /\ attempt' = 0 /\ llmPc' = "idle" /\ lastError' = NoError
  /\ delays' = <<>> /\ errors' = <<>>

\* The static loop resumes with what its decideAction call settled with.
StaticLlmSettled ==
  /\ runPc = "staticLlm"
  /\ llmPc \in {"returned", "thrown"}
  /\ IF llmPc = "thrown"
     THEN StaticLlmThrew
     ELSE \E raw \in RawReplies : \E resolves \in Lookups(raw) :
            StaticLlmReturned(raw, resolves)
  /\ StaticLlmFrame
  /\ CallEnds

\* The loop resumes with what its decideAction call settled with.
LlmSettled ==
  /\ runPc = "llm"
  /\ llmPc \in {"returned", "thrown"}
  /\ IF llmPc = "thrown"
     THEN LlmThrew(lastError)
     ELSE \E raw \in RawReplies : \E resolves \in Lookups(raw) :
            LlmReturned(raw, resolves)
  /\ LlmFrame
  /\ CallEnds

NextCall ==
  \/ RunStart
  \/ ValidateUrlDone
  \/ FetchDone
  \/ StaticLlmSettled
  \/ AcquireDone
  \/ NewContextDone
  \/ AddCookiesDone
  \/ AddInitScriptDone
  \/ NewPageDone
  \/ GotoDone
  \/ IterTop
  \/ SnapshotDone
  \/ LlmSettled
  \/ ExecDone
  \/ CallStep

\* One run of a single iteration, neither aborted nor closed by its caller.
InitCall ==
  /\ InitRun
  /\ maxIterations = 1 /\ maxTotalTokens = 0 /\ ~visionAvailable
  /\ ~poolAttached /\ ~signalAborted

SpecCall == InitCall /\ [][NextCall]_vars

\* --------------------------------------------------------- Scraper.scrape
\* The length below which a tier's content is insufficient.
MIN_CONTENT == 200

\* A format the tier did not produce.
Absent == -1

ForceTiers == {"none", "http", "stealth", "browser"}

\* What a tier's scrape() can settle with: a rejection, or a result with the
\* lengths of its markdown and text and whether it carries ssrData.
TierThrows(t) == [kind |-> "throws", tier |-> t, error |-> <<t, "failed">>]
TierResults(t) ==
  { [kind |-> "result", tier |-> t, statusCode |-> 200, markdown |-> m, text |-> x,
     ssrData |-> d, error |-> Undefined] :
       m \in {Absent, 0, MIN_CONTENT - 1, MIN_CONTENT},
       x \in {Absent, MIN_CONTENT - 1, MIN_CONTENT},
       d \in BOOLEAN }
TierOutcomes(t) == {TierThrows(t)} \cup TierResults(t)

\* options.forceTier ?? this.config.forceTier, with the option ignored.
ForcedByConfig(opt, cfg) == cfg

\* options.forceTier ?? this.config.forceTier
Forced(opt, cfg) == IF opt # "none" THEN opt ELSE cfg

\* result.markdown ?? result.text ?? ""
Content(r) ==
  IF r.markdown # Absent THEN r.markdown
  ELSE IF r.text # Absent THEN r.text
  ELSE 0

\* The test on a tier's content with ssrData left out.
InsufficientDespiteSsr(r) == Content(r) < MIN_CONTENT

\* content.length < 200 && !result.ssrData
Insufficient(r) == Content(r) < MIN_CONTENT /\ ~r.ssrData

\* The consolidated error with only the last tier's cause.
ConsolidatedLast(e1, e2, e3) == <<"Todos os tiers falharam:", e3>>

\* The error text of the consolidated result: one line per tier.
ConsolidatedError(e1, e2, e3) ==
  <<"Todos os tiers falharam:",
    IF e1 # Null THEN e1 ELSE <<"nao tentado">>,
    IF e2 # Null THEN e2 ELSE <<"nao tentado">>,
    e3>>

\* The result scrape() returns when tier 3 throws as well.
Consolidated(e1, e2, e3) ==
  [kind |-> "result", tier |-> "browser", statusCode |-> 0, markdown |-> Absent,
   text |-> Absent, ssrData |-> FALSE, error |-> ConsolidatedError(e1, e2, e3)]

\* The call of a tier's scrape() with validUrl.
Invoke(t, pcNext) ==
  /\ scrapePc' = pcNext
  /\ invoked' = Append(invoked, t)
  /\ Request(t, validUrl')

\* scrape() is called: validateUrl is awaited.
Scrape ==
  /\ UNCHANGED <<poolVars, runVars, llmVars, manyVars, urlVars, otherVars>>
  /\ scrapePc = "idle"
  /\ scrapePc' = "validateUrl"
  /\ UNCHANGED <<cfgForceTier, optForceTier, tier1Error, tier2Error, scrapeResult,
                 scrapeError, invoked, outcomes>>

\* validateUrl settled: scrape() rejects, or calls the forced tier, or tier 1.
ScrapeUrlDone ==
  /\ UNCHANGED <<poolVars, runVars, llmVars, manyVars, otherVars>>
  /\ UrlCallerFrame
  /\ scrapePc = "validateUrl"
  /\ \E resolves \in BOOLEAN :
       IF ~UrlAccepted(rawUrl, resolves)
       THEN /\ scrapePc' = "thrown"
            /\ scrapeError' = <<"UrlValidationError">>
            /\ UNCHANGED <<invoked, validUrl, accepted, requested>>
       ELSE LET forced == Forced(optForceTier, cfgForceTier) IN
            /\ validUrl' = ParseUrl(rawUrl).href
            /\ accepted' = accepted \cup {ParseUrl(rawUrl).href}
            /\ IF forced # "none"
               THEN Invoke(forced, "forced")
               ELSE Invoke("http", "tier1")
            /\ UNCHANGED scrapeError
  /\ UNCHANGED <<cfgForceTier, optForceTier, tier1Error, tier2Error, scrapeResult,
                 outcomes>>

\* The forced tier settled: its result or its rejection is that of scrape().
ForcedDone ==
  /\ UNCHANGED <<poolVars, runVars, llmVars, manyVars, urlVars, otherVars>>
  /\ scrapePc = "forced"
  /\ \E out \in TierOutcomes(invoked[1]) :
       /\ outcomes' = Append(outcomes, out)
       /\ IF out.kind = "throws"
          THEN /\ scrapePc' = "thrown"
               /\ scrapeError' = out.error
               /\ UNCHANGED scrapeResult
          ELSE /\ scrapePc' = "returned"
               /\ scrapeResult' = out
               /\ UNCHANGED scrapeError
  /\ UNCHANGED <<cfgForceTier, optForceTier, tier1Error, tier2Error, invoked>>

\* Tier 1 settled: return its result, or record the cause and call tier 2.
Tier1Done ==
  /\ UNCHANGED <<poolVars, runVars, llmVars, manyVars, otherVars>>
  /\ UrlCallerFrame
  /\ UNCHANGED <<validUrl, accepted>>
  /\ scrapePc = "tier1"
  /\ \E out \in TierOutcomes("http") :
       /\ outcomes' = Append(outcomes, out)
       /\ IF out.kind = "throws"
          THEN /\ tier1Error' = out.error
               /\ Invoke("stealth", "tier2")
               /\ UNCHANGED scrapeResult
          ELSE IF Insufficient(out)
          THEN /\ tier1Error' = <<"Conteudo insuficiente apos HTTP">>
               /\ Invoke("stealth", "tier2")
               /\ UNCHANGED scrapeResult
          ELSE /\ scrapePc' = "returned"
               /\ scrapeResult' = out
               /\ UNCHANGED <<tier1Error, invoked, requested>>
  /\ UNCHANGED <<cfgForceTier, optForceTier, tier2Error, scrapeError>>

\* Tier 2 settled: return its result, or record the cause and call tier 3.
Tier2Done ==
  /\ UNCHANGED <<poolVars, runVars, llmVars, manyVars, otherVars>>
  /\ UrlCallerFrame
  /\ UNCHANGED <<validUrl, accepted>>
  /\ scrapePc = "tier2"
  /\ \E out \in TierOutcomes("stealth") :
       /\ outcomes' = Append(outcomes, out)
       /\ IF out.kind = "throws"
          THEN /\ tier2Error' = out.error
               /\ Invoke("browser", "tier3")
               /\ UNCHANGED scrapeResult
          ELSE IF Insufficient(out)
          THEN /\ tier2Error' = <<"Conteudo insuficiente apos Stealth">>
               /\ Invoke("browser", "tier3")
               /\ UNCHANGED scrapeResult
          ELSE /\ scrapePc' = "returned"
               /\ scrapeResult' = out
               /\ UNCHANGED <<tier2Error, invoked, requested>>
  /\ UNCHANGED <<cfgForceTier, optForceTier, tier1Error, scrapeError>>

\* Tier 3 settled: return its result, or the consolidated error result.
Tier3Done ==
  /\ UNCHANGED <<poolVars, runVars, llmVars, manyVars, urlVars, otherVars>>
  /\ scrapePc = "tier3"
  /\ \E out \in TierOutcomes("browser") :
       /\ outcomes' = Append(outcomes, out)
       /\ scrapePc' = "returned"
       /\ scrapeResult' = IF out.kind = "throws"
                          THEN Consolidated(tier1Error, tier2Error, out.error)
                          ELSE out
  /\ UNCHANGED <<cfgForceTier, optForceTier, tier1Error, tier2Error, scrapeError,
                 invoked>>

NextScrape ==
  \/ Scrape
  \/ ScrapeUrlDone
  \/ ForcedDone
  \/ Tier1Done
  \/ Tier2Done
  \/ Tier3Done

InitScrape ==
  /\ maxSize = 1
  /\ PoolEmpty
  /\ RunIdle
  /\ LLMIdle
  /\ ManyIdle
  /\ rawUrl \in StartUrls
  /\ UrlQuiet
  /\ OtherIdle
  /\ cfgForceTier \in ForceTiers /\ optForceTier \in ForceTiers
  /\ scrapePc = "idle" /\ tier1Error = Null /\ tier2Error = Null
  /\ scrapeResult = NoScrape /\ scrapeError = Null
  /\ invoked = <<>> /\ outcomes = <<>>

SpecScrape == InitScrape /\ [][NextScrape]_vars

\* ----------------------------------------------------- Scraper.scrapeMany
Min(a, b) == IF a < b THEN a ELSE b

\* queue.splice(0, n): the elements removed, and the ones left.
Spliced(q, n) == SubSeq(q, 1, Min(IF n < 0 THEN 0 ELSE n, Len(q)))
Left(q, n) == SubSeq(q, Len(Spliced(q, n)) + 1, Len(q))

\* The entry of results for a settled scrape of url u.
Entry(u, outcome) ==
  IF outcome = "fulfilled"
  THEN [url |-> u, statusCode |-> 200, error |-> FALSE]
  ELSE [url |-> 0, statusCode |-> 0, error |-> TRUE]

\* The while loop of scrapeMany up to its await: return when the queue is
\* empty, else take the next batch and call scrape() for each of its urls.
LoopTop(q, res) ==
  /\ results' = res
  /\ IF Len(q) = 0
     THEN /\ manyPc' = "returned"
          /\ queue' = q
          /\ batch' = <<>>
          /\ settled' = <<>>
          /\ UNCHANGED started
     ELSE /\ manyPc' = "await"
          /\ batch' = Spliced(q, concurrency)
          /\ queue' = Left(q, concurrency)
          /\ settled' = [k \in 1..Len(Spliced(q, concurrency)) |-> "pending"]
          /\ started' = started \o Spliced(q, concurrency)

\* scrapeMany is called.
ScrapeMany ==
  /\ UNCHANGED <<poolVars, runVars, llmVars, scrapeVars, urlVars, otherVars>>
  /\ manyPc = "idle"
  /\ LoopTop(urls, <<>>)
  /\ UNCHANGED <<urls, concurrency, failed>>

\* One scrape() of the batch settles.
ScrapeSettles ==
  /\ UNCHANGED <<poolVars, runVars, llmVars, scrapeVars, urlVars, otherVars>>
  /\ manyPc = "await"
  /\ \E k \in 1..Len(batch), outcome \in {"fulfilled", "rejected"} :
       /\ settled[k] = "pending"
       /\ settled' = [settled EXCEPT ![k] = outcome]
       /\ failed' = IF outcome = "rejected" THEN failed \cup {batch[k]} ELSE failed
  /\ UNCHANGED <<urls, concurrency, manyPc, queue, results, batch, started>>

\* Promise.allSettled resolved: push one entry per scrape, in batch order,
\* and go round the loop.
AllSettled ==
  /\ UNCHANGED <<poolVars, runVars, llmVars, scrapeVars, urlVars, otherVars>>
  /\ manyPc = "await"
  /\ \A k \in 1..Len(batch) : settled[k] # "pending"
  /\ LoopTop(queue, results \o [k \in 1..Len(batch) |-> Entry(batch[k], settled[k])])
  /\ UNCHANGED <<urls, concurrency, failed>>

NextMany ==
  \/ ScrapeMany
  \/ ScrapeSettles
  \/ AllSettled

InitMany ==
  /\ maxSize = 1
  /\ PoolEmpty
  /\ RunIdle
  /\ LLMIdle
  /\ ScrapeIdle
  /\ UrlIdle
  /\ OtherIdle
  /\ urls \in {[k \in 1..n |-> k] : n \in 0..MaxUrls}
  /\ concurrency \in -1..MaxConcurrency
  /\ manyPc = "idle" /\ queue = <<>> /\ results = <<>> /\ batch = <<>>
  /\ settled = <<>> /\ started = <<>> /\ failed = {}

\* Every promise of the event loop is eventually settled and resumed.
SpecMany == InitMany /\ [][NextMany]_vars /\ WF_vars(NextMany)

\* ------------------------------------------------- validateUrl on its own
InitUrl ==
  /\ maxSize = 1
  /\ PoolEmpty
  /\ RunIdle
  /\ LLMIdle
  /\ ScrapeIdle
  /\ ManyIdle
  /\ rawUrl \in UrlTexts
  /\ allowedDomains \in {{}, {<<"ok", "example">>}, {<<"example">>}}
  /\ blockedDomains \in {{}, {<<"blocked", "example">>}, {<<"example">>}}
  /\ urlPc = "idle" /\ validUrl = Null /\ urlError = Null
  /\ lookups = 0 /\ dnsAnswer = NoAnswer /\ requested = {} /\ accepted = {}
  /\ OtherIdle

SpecUrl == InitUrl /\ [][NextUrl]_vars

\* --------------------------- an action formatted and validated on its own
InitFormat ==
  /\ maxSize = 1
  /\ PoolEmpty
  /\ RunIdle
  /\ LLMIdle
  /\ ScrapeIdle
  /\ ManyIdle
  /\ UrlIdle
  /\ fmtAction \in ValidActions
  /\ fmtIter \in 0..MaxIter
  /\ FormatQuiet
  /\ SingleIdle

SpecFormat == InitFormat /\ [][NextFormat]_vars

\* --------------------------------------- one run() or one scrape() call
\* The caller starts either a run or a scrape.
NextRequests ==
  \/ scrapePc = "idle" /\ NextRun
  \/ runPc = "idle" /\ NextScrape

InitRequests == InitRun \/ InitScrape

SpecRequests == InitRequests /\ [][NextRequests]_vars

\* ------------------------------------------------- properties: run and loop
Returned == runPc = "returned"
BrowserPath == Returned /\ result.tier = "playwright"

\* decideAction answered with an action that passed validation.
ValidReply ==
  /\ runPc = "llm"
  /\ usage'.calls = usage.calls + 1
  /\ action' # NoAction

\* The iteration took the STUCK branch: the window is cleared and the
\* history gets the STUCK line.
TookStuck ==
  /\ recentActionKeys' = <<>>
  /\ Len(history') > Len(history)
  /\ history'[Len(history) + 1].kind = "STUCK"

\* C3: the STUCK branch is taken exactly when the validated action's
\* normalized key occurs for the third time within the recorded window, that
\* is when the window already holds it twice.
C3_StuckAtThirdOccurrence ==
  [][ValidReply =>
        (TookStuck <=> Occurrences(recentActionKeys, ActionKey(action')) = 2)]_vars

\* C4: with a positive maxTotalTokens the total the result reports, static
\* attempt included, is at most maxTotalTokens plus one call's tokens.
C4_TotalWithinBudgetPlusOneCall ==
  (Returned /\ maxTotalTokens > 0) =>
     result.totalTokens <= maxTotalTokens + CallTokens

\* C5: when run() returns after a browser was acquired, context and page are
\* closed, and a pool browser was released exactly once.
C5_ResourcesReleased ==
  (Returned /\ browserFrom # "none") =>
     /\ ~contextOpen
     /\ ~pageOpen
     /\ browserFrom = "pool" => releases = 1

\* The signal fired during iteration abortIter and that iteration did not
\* end the run with done or error.
AbortedInIteration ==
  /\ BrowserPath
  /\ abortIter >= 0
  /\ ~(result.iter = abortIter /\ result.status \in {"done", "error"})

NothingAfterAbortIteration ==
  /\ lastSnapIter <= abortIter
  /\ lastLlmIter <= abortIter
  /\ lastExecIter <= abortIter

\* C6 as stated: after the signal fires during iteration k, nothing of a
\* later iteration runs and the status is aborted.
C6_AbortEndsAsAborted ==
  AbortedInIteration =>
     /\ NothingAfterAbortIteration
     /\ result.status = "aborted"

\* C6: after the signal fires during iteration k, nothing of a later
\* iteration runs; the status is aborted, or max_iterations when k was the
\* last iteration the loop allows.
C6_AbortStopsLoop ==
  AbortedInIteration =>
     /\ NothingAfterAbortIteration
     /\ IF abortIter = maxIterations - 1
        THEN result.status = "max_iterations"
        ELSE result.status = "aborted" /\ result.iter = abortIter + 1

C6_Witness ==
  /\ AbortedInIteration
  /\ abortIter >= 1
  /\ result.status = "aborted"
  /\ lastLlmIter = abortIter

\* C7 as stated: a signal found aborted at the call of run() or by the
\* static loop means no LLM call and the status aborted.
C7_AbortedBeforeLlm ==
  (Returned /\ abortSeen # "none") =>
     /\ requests = 0
     /\ result.calls = 0
     /\ result.status = "aborted"

\* C7: a signal found aborted at the call of run() or by the static loop
\* means no LLM call; the status is aborted unless the browser setup or the
\* navigation failed, which the catch block reports as error.
C7_NoLlmCallWhenAborted ==
  (Returned /\ abortSeen # "none") =>
     /\ requests = 0
     /\ result.calls = 0
     /\ result.totalTokens = 0
     /\ \/ result.status = "aborted"
        \/ result.status = "error" /\ result.kind = "exception" /\ abortSeen = "static"

C7_Witness ==
  /\ Returned
  /\ abortSeen = "static"
  /\ result.status = "aborted"
  /\ result.tier = "playwright"

GuardFired == guards.aborted \/ guards.late \/ guards.budget

\* C8: the guards are tested in the order cancellation, deadline, budget,
\* blocked page; the first that fires ends the run with its own status and
\* the iteration issues no LLM call and no action; with maxTotalTokens = 0
\* the budget guard never fires.
C8_GuardOrder ==
  /\ runPc \in {"snapshot", "llm", "exec"} => ~GuardFired
  /\ (BrowserPath /\ GuardFired) =>
        /\ result.kind = (IF guards.aborted THEN "aborted"
                          ELSE IF guards.late THEN "timeout" ELSE "budget")
        /\ lastSnapIter < result.iter
  /\ (BrowserPath /\ result.kind \in {"aborted", "timeout", "budget", "blocked"}) =>
        /\ result.status = (IF result.kind = "aborted" THEN "aborted"
                            ELSE IF result.kind = "timeout" THEN "timeout" ELSE "error")
        /\ result.kind = "blocked" <=> ~GuardFired
        /\ result.kind = "budget" => usage.totalTokens >= maxTotalTokens
        /\ lastLlmIter < result.iter
        /\ lastExecIter < result.iter
        /\ \A k \in 1..Len(actions) : actions[k].iteration < result.iter
  /\ maxTotalTokens = 0 => (~guards.budget /\ result.kind # "budget")

C8_Witness ==
  /\ BrowserPath
  /\ guards.aborted /\ guards.late /\ guards.budget
  /\ result.status = "aborted"
  /\ result.iter >= 1

\* ------------------------------------------------- properties: decideAction
\* Transient failures: HTTP 429, 408 or 5xx, or a network error whose message
\* holds ECONNRESET, ETIMEDOUT, socket hang up or fetch failed.
Transient(err) ==
  \/ err.api /\ err.status \in ({429, 408} \cup (500..599))
  \/ ~err.api /\ \E k \in 1..Len(err.msg) :
        err.msg[k] \in {"ECONNRESET", "ETIMEDOUT", "socket hang up", "fetch failed"}

\* Attempts that have failed so far.
Failed == Len(errors)

RetryCore ==
  /\ attempt <= 3
  /\ llmPc # "idle" => attempt >= 1
  /\ \A k \in 1..Len(delays) : Transient(errors[k])
  /\ \A k \in 1..Failed : ~Transient(errors[k]) =>
        (k = Failed /\ llmPc = "thrown" /\ Len(delays) = k - 1)
  /\ (Failed >= 1 /\ ~Transient(errors[1])) =>
        (attempt = 1 /\ delays = <<>> /\ llmPc = "thrown")

\* C9 as stated: only transient failures are retried, at most 3 attempts,
\* and every failed transient attempt is followed by a wait of
\* 1000 * 2^(attempt-1) ms, the sequence 1000, 2000, 4000.
C9_WaitAfterEveryTransientFailure ==
  /\ RetryCore
  /\ \A k \in 1..Failed : Transient(errors[k]) =>
        (Len(delays) >= k /\ delays[k] = 1000 * Pow2(k - 1))

\* C9: only transient failures are retried, at most 3 attempts; a failed
\* transient attempt that is not the third is followed by a wait of
\* 1000 * 2^(attempt-1) ms, so the waits are 1000 then 2000, and the third
\* failure is thrown without a wait.
C9_RetryOnlyTransient ==
  /\ RetryCore
  /\ \A k \in 1..Failed : (Transient(errors[k]) /\ k < 3) =>
        (Len(delays) >= k /\ delays[k] = 1000 * Pow2(k - 1))
  /\ Len(delays) <= 2
  /\ Failed = 3 => (llmPc = "thrown" /\ delays = <<1000, 2000>>)

C9_Witness ==
  /\ llmPc = "thrown"
  /\ attempt = 3
  /\ Failed = 3
  /\ \A k \in 1..3 : Transient(errors[k])
  /\ delays = <<1000, 2000>>

\* ------------------------------------------------- properties: BrowserPool
Live == Range(browsers)
Idle == Range(available)
Holders(b) == {c \in Clients : pc[c] = "holding" /\ held[c] = b}
NoDuplicates(s) == \A j, k \in 1..Len(s) : j # k => s[j] # s[k]

\* C1: the number of live browsers never exceeds maxSize, whatever the
\* interleaving of acquire, release, close and disconnects.
C1_LiveWithinMaxSize == Len(browsers) <= maxSize

\* No browser is checked out to two consumers or both idle and checked out,
\* and the idle stack holds live browsers only, each once.
ExclusiveUse ==
  /\ \A b \in BrowserIds : Cardinality(Holders(b)) <= 1
  /\ \A b \in Idle : Holders(b) = {}
  /\ Idle \subseteq Live
  /\ NoDuplicates(available)

\* C2 as stated: at every point each live browser is idle or checked out to
\* exactly one consumer, never both, never two consumers; idle is a subset of live.
C2_IdleXorCheckedOut ==
  /\ ExclusiveUse
  /\ \A b \in Live : b \in Idle \/ Cardinality(Holders(b)) = 1

\* C2 amended: exclusive use holds at every point; while the pool has not been
\* closed each live browser is idle or checked out to exactly one consumer.
C2_IdleXorCheckedOutWhileOpen ==
  /\ ExclusiveUse
  /\ ~closed => \A b \in Live : b \in Idle \/ Cardinality(Holders(b)) = 1

\* An idle browser was reused while another live browser is checked out.
C2_Witness ==
  /\ lastOp.kind = "acquire_idle"
  /\ ~closed
  /\ \E c, d \in Clients :
        /\ c # d /\ pc[c] = "holding" /\ pc[d] = "holding"
        /\ held[c] \in Live /\ held[d] \in Live

\* C10: release(b) of a connected browser while waiters are pending hands b
\* to the waiter that arrived first, cancels its timer, leaves the others
\* waiting and does not put b on the idle stack.
C10_FifoHandoff ==
  [][\A c \in Clients :
       (/\ pc[c] = "holding" /\ pc'[c] # "holding"
        /\ ~closed /\ held[c] \in connected /\ Len(waitQueue) > 0)
       => /\ Len(arrived) > 0
          /\ LET w == arrived[1] IN
             /\ pc'[w] = "holding" /\ held'[w] = held[c]
             /\ w \notin timers'
             /\ w \notin Range(waitQueue')
             /\ \A x \in Range(arrived) \ {w} : pc'[x] = "waiting" /\ x \in Range(waitQueue')
             /\ available' = available]_vars

\* A hand-off took place while two waiters were pending.
C10_Witness ==
  /\ lastOp.kind = "handoff" /\ lastOp.pending >= 2
  /\ pc[lastOp.client] = "holding"
  /\ Len(waitQueue) >= 1

\* C11: a waiter whose timer fires is rejected with the timeout error and
\* leaves the wait queue, so the queue holds exactly the pending waiters and a
\* release never reaches an expired one; a served waiter has no timer left,
\* so it never also gets the timeout error.
C11_TimeoutRemovesWaiter ==
  /\ NoDuplicates(waitQueue)
  /\ \A c \in Clients : c \in Range(waitQueue) <=> pc[c] = "waiting"
  /\ \A c \in Clients : c \in timers <=> pc[c] = "waiting"
  /\ lastOp.kind = "timeout" =>
        /\ pc[lastOp.client] = "idle"
        /\ held[lastOp.client] = NoBrowser
        /\ lastOp.client \notin Range(waitQueue)
  /\ lastOp.kind = "handoff" =>
        /\ pc[lastOp.client] = "holding"
        /\ held[lastOp.client] \in connected
        /\ lastOp.client \notin timers

C11_Witness ==
  /\ lastOp.kind = "timeout"
  /\ Len(waitQueue) >= 1
  /\ \E c \in Clients : pc[c] = "holding"

\* C12: once close() was called no waiter is pending, every acquire fails and
\* no acquire, one in progress included, returns a browser.
C12_NothingAcquiredAfterClose ==
  closed =>
     /\ waitQueue = <<>>
     /\ \A c \in Clients : pc[c] # "waiting"
     /\ lastOp.kind \notin {"launched", "acquire_idle", "acquire_launch", "acquire_wait",
                            "handoff"}

\* C13: a disconnected browser is in neither array, is held by no consumer
\* that got it after the disconnect, and does not count against maxSize.
C13_DisconnectedIsForgotten ==
  /\ \A b \in 1..launched : b \notin connected =>
        (b \notin Range(browsers) /\ b \notin Range(available))
  /\ lastOp.kind \in {"acquire_idle", "handoff", "launched"} =>
        held[lastOp.client] \in connected
  /\ Range(browsers) \subseteq connected

C13_Witness ==
  /\ lastOp.kind = "acquire_launch"
  /\ maxSize = 1
  /\ launched = 1
  /\ 1 \notin connected
  /\ \E c \in Clients : pc[c] = "holding" /\ held[c] = 1

\* The normalized keys of the recorded actions, in order.
RecordedKeys == [k \in 1..Len(actions) |-> ActionKey(actions[k].action)]

\* C14: among any 9 consecutive recorded actions no normalized key occurs
\* more than twice.
C14_AtMostTwoPerWindow ==
  \A a \in 1..Len(actions) :
     Cardinality({k \in a..Len(actions) :
                     k < a + RECENT_WINDOW /\ RecordedKeys[k] = RecordedKeys[a]}) <= 2

\* C15: a result holds at most maxIterations actions, a recorded done action
\* is the last one, and a done result ends with a done action.
C15_ActionsShape ==
  Returned =>
     /\ Len(result.acts) <= maxIterations
     /\ result.nActions = Len(result.acts)
     /\ \A k \in 1..Len(result.acts) :
           result.acts[k].type = "done" => k = Len(result.acts)
     /\ result.status = "done" =>
           (Len(result.acts) >= 1 /\ result.acts[Len(result.acts)].type = "done")

C15_Witness ==
  /\ Returned
  /\ result.status = "done"
  /\ Len(result.acts) = maxIterations
  /\ maxIterations >= 3

Statuses == {"done", "max_iterations", "error", "timeout", "aborted"}

LoopWithinBounds ==
  /\ i <= maxIterations
  /\ usage.calls <= maxIterations
  /\ lastSnapIter < maxIterations
  /\ lastLlmIter < maxIterations
  /\ lastExecIter < maxIterations
  /\ BrowserPath =>
        /\ result.status \in Statuses
        /\ result.status = "max_iterations" <=> result.iter = maxIterations
        /\ result.status = "max_iterations" => usage.calls = maxIterations

\* The steps of run() itself, without those of its caller.
RunStep ==
  \/ RunStart \/ ValidateUrlDone \/ FetchDone \/ StaticLlmDone \/ AcquireDone
  \/ NewContextDone \/ AddCookiesDone \/ AddInitScriptDone \/ NewPageDone \/ GotoDone
  \/ IterTop \/ SnapshotDone \/ LlmDone \/ ExecDone

\* How far run() is from its end: the suspension points of the setup in
\* order, then four per remaining iteration; the caller can abort once and
\* close once.
Stage(p) ==
  CASE p = "start" -> 14 [] p = "validateUrl" -> 13 [] p = "fetch" -> 12
    [] p = "staticLlm" -> 11 [] p = "acquire" -> 10 [] p = "newContext" -> 9
    [] p = "addCookies" -> 8 [] p = "addInitScript" -> 7 [] p = "newPage" -> 6
    [] p = "goto" -> 5 [] p = "top" -> 4 [] p = "snapshot" -> 3 [] p = "llm" -> 2
    [] p = "exec" -> 1 [] OTHER -> 0
Remaining ==
  IF runPc \in {"returned", "thrown", "idle"} THEN 0
  ELSE 4 * (maxIterations - i) + Stage(runPc)
       + (IF signalAborted THEN 0 ELSE 1) + (IF poolAttached THEN 1 ELSE 0)

\* C16: the loop runs at most maxIterations iterations and LLM calls and
\* run() ends: every step brings it closer to its end and it is never stuck
\* short of it; it ends with one status of the five, and the status is
\* max_iterations exactly when all maxIterations iterations completed.
C16_LoopTerminates ==
  /\ []LoopWithinBounds
  /\ [](Remaining >= 0)
  /\ [](runPc \notin {"returned", "thrown", "idle"} => ENABLED RunStep)
  /\ [][Remaining' < Remaining]_vars

C16_Witness ==
  /\ BrowserPath
  /\ result.status = "max_iterations"
  /\ maxIterations >= 3
  /\ usage.calls = maxIterations
  /\ \E k \in 1..Len(history) : history[k].kind = "INVALID"
  /\ \E k \in 1..Len(history) : history[k].kind = "OK"

\* Iterations whose LLM request carried a screenshot.
ShotIters == {k \in 0..(Len(shots) - 1) : shots[k + 1] = "sent"}

\* Iterations that appended the activation line.
VisionLines == {k \in 1..Len(history) : history[k].kind = "VISION"}

\* C17: a request carries a screenshot only if vision is available (config
\* flag and whitelisted model) and the failure counter reached 3 in an
\* earlier iteration.
C17_ScreenshotOnlyAfterEscalation ==
  \A k \in ShotIters :
     /\ visionAvailable
     /\ peakFailures >= 3
     /\ \E h \in VisionLines : history[h].iter < k

C17_Witness ==
  /\ ShotIters # {}
  /\ runPc = "llm"

\* What holds of vision whether or not a capture succeeds.
VisionCore ==
  /\ (visionAvailable /\ consecutiveFailures >= 3) => useVision
  /\ (visionAvailable /\ peakFailures >= 3) => useVision
  /\ useVision => (visionAvailable /\ peakFailures >= 3)
  /\ useVision <=> Cardinality(VisionLines) = 1
  /\ Cardinality(VisionLines) <= 1
  /\ \A h \in VisionLines : (h > 1 /\ history[h - 1].iter = history[h].iter
                             /\ history[h - 1].kind \in {"INVALID", "STUCK", "ERROR"})

WellFormed(a) ==
  \/ /\ a.type = "click"
     /\ Len(a.text) > 0
     /\ a.text[1] # "sp"
     /\ a.text[Len(a.text)] # "sp"
  \/ a.type = "goto" /\ a.text = <<"https://ok.example/">>
  \/ a.type = "done"

InvalidIters == {history[h].iter : h \in {k \in 1..Len(history) : history[k].kind = "INVALID"}}
ActionEvents == SelectSeq(events, LAMBDA e : e.ev = "action")

\* C19: every recorded or executed action passed the action validator and,
\* for a goto, the URL validator; an answer that fails validation is not
\* recorded, not reported by the action event, not executed, and the loop
\* goes on to the next iteration.
C19_OnlyValidatedActions ==
  /\ \A k \in 1..Len(actions) : WellFormed(actions[k].action)
  /\ runPc = "exec" =>
        /\ WellFormed(action)
        /\ action.type # "done"
        /\ Len(actions) > 0
        /\ actions[Len(actions)] = [action |-> action, iteration |-> i]
  /\ Len(ActionEvents) = Len(actions)
  /\ \A k \in 1..Len(actions) : ActionEvents[k].iter = actions[k].iteration
  /\ \A n \in InvalidIters :
        /\ n < i
        /\ \A k \in 1..Len(actions) : actions[k].iteration # n
        /\ lastExecIter # n
        /\ ~(Returned /\ result.iter = n)

C19_Witness ==
  /\ runPc = "exec"
  /\ action.type = "goto"
  /\ InvalidIters # {}
  /\ Len(actions) >= 2

\* The run ended on a done action, the last one recorded.
LastAct == result.acts[Len(result.acts)]
EndedOnDone == Returned /\ Len(result.acts) > 0 /\ LastAct.type = "done"

\* The error text a FAILED: result asks for.
ExpectedReason(a) ==
  LET tail == Trim(SubSeq(a.text, 2, Len(a.text))) IN
  IF tail = <<>> THEN <<"The agent could not complete the task.">> ELSE tail

DoneIsTerminal ==
  /\ runPc = "exec" => action.type # "done"
  /\ \A k \in 1..Len(actions) : actions[k].action.type = "done" =>
        (k = Len(actions) /\ Returned /\ lastExecIter < actions[k].iteration
         /\ LastAct = actions[k].action)
  /\ (Returned /\ result.tier = "http" /\ result.status # "aborted") => EndedOnDone

FailedDone ==
  (EndedOnDone /\ LastAct.text[1] = "FAILED:") =>
     /\ result.status = "error"
     /\ result.data = Null
     /\ result.error = ExpectedReason(LastAct)

\* C20 as stated: a FAILED: done ends the run with status error, data null
\* and the trimmed remainder (or the default) as error; any other done ends
\* it with status done and data equal to the result; the done action is
\* recorded and never executed.
C20_DoneEndsRun ==
  /\ DoneIsTerminal
  /\ FailedDone
  /\ (EndedOnDone /\ LastAct.text[1] # "FAILED:") =>
        /\ result.status = "done"
        /\ result.data = LastAct.text

\* C20: as above, except that with a schema option a done result carries
\* the parsed and validated data, or becomes status error with data null
\* when the data fails the schema.
C20_DoneEndsRunModuloSchema ==
  /\ DoneIsTerminal
  /\ FailedDone
  /\ (EndedOnDone /\ LastAct.text[1] # "FAILED:") =>
        \/ /\ result.schema = "none"
           /\ result.status = "done"
           /\ result.data = LastAct.text
        \/ /\ result.schema = "valid"
           /\ result.status = "done"
           /\ result.data = <<"json">> \o LastAct.text
        \/ /\ result.schema = "invalid"
           /\ result.status = "error"
           /\ result.data = Null
           /\ result.error = <<"Schema validation failed">>

C20_Witness ==
  /\ EndedOnDone
  /\ result.tier = "playwright"
  /\ Len(result.acts) >= 2
  /\ result.error = <<"The agent could not complete the task.">>

\* C21: run() throws only for invalid options, a rejected start URL and a
\* pool.acquire() failure; every result that is not done carries an error
\* and a report.
C21_ThrowsOnlyAsDocumented ==
  /\ runPc = "thrown" => thrownBy \in {"options", "url", "pool"}
  /\ (Returned /\ result.status # "done") =>
        /\ result.error \notin {Null, Undefined}
        /\ result.report # <<>>

\* ------------------------------------------- properties: truncated response
\* The decideAction call in progress got a response cut off by the token
\* limit.
CutOffSeen == \E k \in 1..Len(errors) : errors[k] = CutOff

\* The caller resumes after decideAction rejected with the cut-off error.
ResumesAfterCutOff ==
  /\ llmPc = "thrown"
  /\ lastError = CutOff
  /\ runPc' # runPc

\* C22: a response cut off by the token limit is the last of its call:
\* decideAction throws without a further request and returns no action; the
\* loop then returns status error with a message naming
\* max_completion_tokens, and the static loop falls back to the browser path
\* with an empty usage and no result.
C22_CutOffResponseFails ==
  /\ [](\A k \in 1..Len(errors) :
          errors[k] = CutOff => (k = Len(errors) /\ attempt = k /\ llmPc = "thrown"))
  /\ [][ResumesAfterCutOff =>
          /\ action' = NoAction /\ actions' = actions /\ usage' = usage
          /\ runPc = "llm" =>
               /\ runPc' = "returned"
               /\ result'.status = "error"
               /\ result'.error[1] = "LLM error:"
               /\ "max_completion_tokens" \in Range(result'.error)
          /\ runPc = "staticLlm" =>
               /\ runPc' = "acquire"
               /\ result' = NoResult
               /\ staticLoopUsage' = ZeroUsage]_vars

C22_Witness ==
  /\ Returned
  /\ result.kind = "llm"
  /\ result.iter = 0
  /\ "max_completion_tokens" \in Range(result.error)
  /\ requests = 2

\* ----------------------------------------------- properties: static attempt
\* runStaticLoop returns to run().
StaticSettles == runPc = "staticLlm" /\ runPc' # "staticLlm"

OneCallUsage == [totalTokens |-> CallTokens, calls |-> 1]

\* C23: the static loop is entered at most once and issues one decideAction
\* call; a valid done action ends the run with a result of tier http, that
\* one action recorded and usage.calls = 1; anything else gives no result,
\* keeps the usage (empty after an LLM failure, one call otherwise) and
\* run() goes on to acquire a browser.
C23_StaticAttempt ==
  /\ [](runPc = "staticLlm" => (requests = 1 /\ action = NoAction))
  /\ [][runPc' = "staticLlm" => runPc \in {"fetch", "staticLlm"}]_vars
  /\ [][StaticSettles =>
          /\ requests' = requests
          /\ IF IsDone(action')
             THEN /\ runPc' = "returned"
                  /\ result'.tier = "http"
                  /\ result'.status \in {"done", "error"}
                  /\ result'.nActions = 1
                  /\ result'.acts = <<action'>>
                  /\ result'.calls = 1
                  /\ staticLoopUsage' = OneCallUsage
             ELSE /\ runPc' = "acquire"
                  /\ result' = NoResult
                  /\ staticLoopUsage' \in {ZeroUsage, OneCallUsage}
                  /\ action' # NoAction => staticLoopUsage' = OneCallUsage]_vars

C23_Witness ==
  /\ runPc = "acquire"
  /\ action.type = "click"
  /\ staticLoopUsage = OneCallUsage
  /\ result = NoResult

\* C24: the result of a run that went on to the browser path reports the
\* static attempt's usage plus the loop's usage, so it is never below the
\* static attempt's usage.
C24_UsageIsStaticPlusLoop ==
  (Returned /\ browserFrom # "none") =>
     /\ result.calls = staticLoopUsage.calls + usage.calls
     /\ result.totalTokens = staticLoopUsage.totalTokens + usage.totalTokens
     /\ result.calls >= staticLoopUsage.calls

\* ------------------------------------------------ properties: event order
ActionIters == [k \in 1..Len(actions) |-> actions[k].iteration]
EventIters == [k \in 1..Len(ActionEvents) |-> ActionEvents[k].iter]

\* Every action event but the last entry is directly followed by the
\* result of executing that action, or by the end of the run.
ExecutedInTurn(evs) ==
  \A p \in 1..Len(evs) - 1 :
     evs[p].ev = "action" =>
        \/ evs[p + 1] = [ev |-> "actionResult", iter |-> evs[p].iter]
        \/ evs[p + 1].ev = "done"

\* What holds of the records and events of the interactive loop.
LoopRecordsCore ==
  /\ [](\A k \in 1..Len(actions) - 1 : ActionIters[k] < ActionIters[k + 1])
  /\ [][/\ Len(actions') >= Len(actions)
        /\ SubSeq(actions', 1, Len(actions)) = actions]_vars
  /\ [](EventIters = ActionIters)
  /\ [][Len(actions') > Len(actions) =>
          /\ Len(events') > Len(events)
          /\ events'[Len(events) + 1] = [ev |-> "action", iter |-> i]
          /\ lastExecIter < i
          /\ runPc' = "exec" => lastExecIter' = i]_vars
  /\ [](ExecutedInTurn(events))
  /\ [](runPc = "llm" =>
          /\ events[Len(events)] = [ev |-> "iteration", iter |-> i]
          /\ \A k \in 1..Len(actions) : ActionIters[k] = lastExecIter => lastExecIter < i)
  /\ [][events' # events /\ events'[Len(events')].ev = "actionResult" =>
          /\ runPc = "exec"
          /\ events[Len(events)] = [ev |-> "action", iter |-> i]]_vars

\* C25: records are appended in increasing iteration order and never
\* removed, every record of the run has its action event, fired in the same
\* order and before the action is executed, and a recorded action that is
\* not done is executed before the next LLM request.
C25_EventPerRecord ==
  /\ LoopRecordsCore
  /\ [](Returned => result.nActions <= Len(ActionEvents))

\* C25 for the interactive loop: what C25 states holds of the records of
\* runAgentLoop, and the result it returns lists exactly the records that
\* had an action event.
C25_EventPerLoopRecord ==
  /\ LoopRecordsCore
  /\ []((Returned /\ result.tier = "playwright" /\ result.kind # "exception") =>
            result.nActions = Len(ActionEvents))

C25_Witness ==
  /\ runPc = "llm"
  /\ Len(actions) = 2
  /\ i = 2
  /\ Len(events) = 7

\* -------------------------------------------------- properties: done event
DoneEvents == SelectSeq(events, LAMBDA e : e.ev = "done")

\* The done event was emitted once, with the returned result, after every
\* other event of the run.
DoneEmittedLast ==
  /\ Len(DoneEvents) = 1
  /\ events[Len(events)].ev = "done"
  /\ events[Len(events)].result = result

\* C26: a run() that returned a result has emitted exactly one done event,
\* with that result, after all its iteration and action events.
C26_DoneEventOnEveryReturn == Returned => DoneEmittedLast

\* ------------------------------------------------ properties: scrape tiers
\* No tier is forced, by the call or by the configuration.
Auto == optForceTier = "none" /\ cfgForceTier = "none"

Cascade == <<"http", "stealth", "browser">>

\* The tier threw or returned too little: under 200 characters of content
\* and no ssrData.
FellShort(o) == o.kind = "throws" \/ (Content(o) < MIN_CONTENT /\ ~o.ssrData)

\* C27: without forceTier the tiers are invoked in the order http, stealth,
\* browser, each at most once; a tier is invoked exactly when the one before
\* it threw or returned under 200 characters (of markdown when it has
\* markdown) and no ssrData; the first result that does not fall short is
\* returned.
C27_TierOrder ==
  Auto =>
    /\ Len(invoked) <= 3
    /\ invoked = SubSeq(Cascade, 1, Len(invoked))
    /\ Len(outcomes) <= Len(invoked)
    /\ \A k \in 1..Len(outcomes) : outcomes[k].tier = invoked[k]
    /\ \A k \in 2..Len(invoked) :
          /\ FellShort(outcomes[k - 1])
          /\ outcomes[k - 1].kind = "result" =>
                /\ ~outcomes[k - 1].ssrData
                /\ outcomes[k - 1].markdown < MIN_CONTENT
    /\ \A k \in 1..Len(outcomes) :
          (k < 3 /\ FellShort(outcomes[k])) => Len(invoked) > k
    /\ (scrapePc = "returned" /\ scrapeResult.statusCode # 0) =>
          /\ Len(outcomes) = Len(invoked)
          /\ scrapeResult = outcomes[Len(outcomes)]
          /\ Len(outcomes) < 3 => ~FellShort(scrapeResult)
    /\ scrapePc \in {"returned", "thrown"} => Len(outcomes) = Len(invoked)

C27_Witness ==
  /\ Auto
  /\ scrapePc = "returned"
  /\ Len(invoked) = 3
  /\ outcomes[1].kind = "result"
  /\ outcomes[2].kind = "throws"
  /\ scrapeResult.statusCode = 200

\* The tier forceTier selects: that of the call, else that of the config.
ForcedTier == IF optForceTier # "none" THEN optForceTier ELSE cfgForceTier

\* C28: with forceTier set by the call or by the configuration, exactly the
\* selected tier is invoked, once, and its result or its rejection is what
\* scrape() returns or rejects with.
C28_ForcedTierOnly ==
  ForcedTier # "none" =>
    /\ Len(invoked) <= 1
    /\ scrapePc \in {"forced", "returned"} => invoked = <<ForcedTier>>
    /\ scrapePc = "thrown" => invoked \in {<<>>, <<ForcedTier>>}
    /\ tier1Error = Null /\ tier2Error = Null
    /\ scrapePc = "returned" =>
          /\ outcomes = <<scrapeResult>>
          /\ scrapeResult.kind = "result"
          /\ scrapeResult.tier = ForcedTier
    /\ (scrapePc = "thrown" /\ invoked # <<>>) =>
          /\ Len(outcomes) = 1
          /\ outcomes[1] = TierThrows(ForcedTier)
          /\ scrapeError = outcomes[1].error

C28_Witness ==
  /\ optForceTier = "stealth"
  /\ cfgForceTier = "browser"
  /\ scrapePc = "thrown"
  /\ invoked = <<"stealth">>

\* C29: without forceTier scrape() rejects only when URL validation fails;
\* when tier 3 throws too it returns a result with statusCode 0 whose error
\* lists the cause recorded for tier 1, for tier 2 and for tier 3.
C29_ConsolidatedFailure ==
  Auto =>
    /\ scrapePc = "thrown" => (invoked = <<>> /\ scrapeError = <<"UrlValidationError">>)
    /\ (scrapePc = "returned" /\ outcomes[Len(outcomes)].kind = "throws") =>
          /\ Len(outcomes) = 3
          /\ scrapeResult.statusCode = 0
          /\ tier1Error # Null /\ tier2Error # Null
          /\ outcomes[1].kind = "throws" => tier1Error = outcomes[1].error
          /\ outcomes[2].kind = "throws" => tier2Error = outcomes[2].error
          /\ Len(scrapeResult.error) = 4
          /\ scrapeResult.error[2] = tier1Error
          /\ scrapeResult.error[3] = tier2Error
          /\ scrapeResult.error[4] = outcomes[3].error
    /\ (scrapePc = "returned" /\ scrapeResult.statusCode = 0) =>
          outcomes[Len(outcomes)].kind = "throws"

C29_Witness ==
  /\ Auto
  /\ scrapePc = "returned"
  /\ scrapeResult.statusCode = 0
  /\ outcomes[1].kind = "result"
  /\ outcomes[2].kind = "throws"

\* -------------------------------------------------- properties: scrapeMany
InFlight == {k \in 1..Len(settled) : settled[k] = "pending"}

\* What scrapeMany keeps while it runs and holds when it returns.
BatchesCore ==
  /\ [](Cardinality(InFlight) <= concurrency)
  /\ [][started' # started => InFlight = {}]_vars
  /\ [](manyPc = "returned" =>
          /\ Len(results) = Len(urls)
          /\ started = urls
          /\ \A k \in 1..Len(urls) :
                IF urls[k] \in failed
                THEN results[k].error
                ELSE ~results[k].error /\ results[k].url = urls[k])

\* C30: at most c scrapes are in flight, a batch starts only after the
\* previous one settled, and scrapeMany returns one result per url, in the
\* order of urls, an error entry for every url whose scrape failed.
C30_OneResultPerUrl ==
  /\ BatchesCore
  /\ <>(manyPc = "returned")

\* ------------------------------------------------ properties: URL policy
\* The policy of the validator on a URL, under the lists in effect.
PolicyAllows(u) ==
  LET parsed == ParseUrl(u) IN
  /\ parsed # Unparsable
  /\ parsed.protocol \in {"http:", "https:"}
  /\ parsed.hostname \notin BLOCKED_HOSTS
  /\ ~IsPrivateIp(parsed.hostname)
  /\ allowedDomains # {} => \E d \in allowedDomains : MatchesDomain(parsed.hostname, d)
  /\ ~\E d \in blockedDomains : MatchesDomain(parsed.hostname, d)

PolicySteps(raw, allow, block, answer) ==
  LET parsed == ParseUrl(raw)
      host == parsed.hostname
      parses == parsed # Unparsable
  IN << [step |-> "Invalid URL", passes |-> parses],
        [step |-> "Blocked protocol",
         passes |-> parses /\ parsed.protocol \in {"http:", "https:"}],
        [step |-> "Blocked host",
         passes |-> parses /\ host \notin {<<"localhost">>, <<"[::1]">>}],
        [step |-> "Blocked private IP", passes |-> parses /\ ~IsPrivateIp(host)],
        [step |-> "not in the allowedDomains list",
         passes |-> parses /\ (allow = {} \/ \E d \in allow : MatchesDomain(host, d))],
        [step |-> "in the blockedDomains list",
         passes |-> parses /\ ~\E d \in block : MatchesDomain(host, d)],
        [step |-> "DNS resolution failed", passes |-> answer.kind # "error"],
        [step |-> "DNS rebinding detected",
         passes |-> \A addr \in answer.addresses : ~IsPrivateIp(addr)] >>

\* The first step of the policy the URL does not pass, 0 when it passes all.
FirstFailing(steps) ==
  IF \A k \in 1..Len(steps) : steps[k].passes THEN 0
  ELSE CHOOSE k \in 1..Len(steps) :
         ~steps[k].passes /\ \A j \in 1..(k - 1) : steps[j].passes

\* C32: validateUrl returns a URL (the href) only if every step of the
\* policy passed; otherwise it throws the error of the first step that fails
\* in the order parse, protocol, blocked host, private IP literal, allow list,
\* block list, DNS (a failed lookup included) and returns nothing; the DNS
\* lookup is made only when every earlier step passed; a host on the block
\* list is rejected even when the allow list matches it.
C32_FirstFailingStepRejects ==
  LET \* the six steps that come before the DNS lookup
      sync == SubSeq(PolicySteps(rawUrl, allowedDomains, blockedDomains, NoAnswer), 1, 6)
      steps == PolicySteps(rawUrl, allowedDomains, blockedDomains, dnsAnswer)
      host == ParseUrl(rawUrl).hostname
  IN /\ urlPc = "returned" =>
          /\ FirstFailing(steps) = 0
          /\ validUrl = ParseUrl(rawUrl).href
          /\ urlError = Null
     /\ urlPc = "thrown" =>
          /\ FirstFailing(steps) # 0
          /\ urlError = steps[FirstFailing(steps)].step
          /\ validUrl = Null
     /\ lookups = (IF urlPc # "idle" /\ FirstFailing(sync) = 0 THEN 1 ELSE 0)
     /\ dnsAnswer # NoAnswer => lookups = 1
     /\ (urlPc = "returned" => ~\E d \in blockedDomains : MatchesDomain(host, d))

\* A host that the allow list matches was rejected for being on the block list.
C32_Witness ==
  /\ urlPc = "thrown"
  /\ urlError = "in the blockedDomains list"
  /\ allowedDomains # {}
  /\ \E d \in allowedDomains : MatchesDomain(ParseUrl(rawUrl).hostname, d)

Logged(kind) ==
  /\ Len(history') > Len(history)
  /\ history'[Len(history) + 1] = [iter |-> i, kind |-> kind]

NewStuckLines ==
  {k \in (Len(history) + 1)..Len(history') : history'[k].kind = "STUCK"}

\* C35: a step that takes the STUCK branch leaves actions as they are, emits
\* no action event, hands nothing to executeAction, appends exactly one STUCK
\* line to the history and leaves the window of recent keys empty; the window
\* never holds more than 9 keys.
C35_StuckBranchAndWindow ==
  /\ [][Logged("STUCK") =>
          /\ actions' = actions
          /\ events' = events
          /\ lastExecIter' = lastExecIter /\ runPc' # "exec"
          /\ Cardinality(NewStuckLines) = 1
          /\ recentActionKeys' = <<>>]_vars
  /\ [](Len(recentActionKeys) <= RECENT_WINDOW)

\* A tenth key was pushed onto a full window, and a STUCK branch was taken
\* earlier in the same behaviour.
C35_Witness ==
  /\ Len(recentActionKeys) = RECENT_WINDOW
  /\ Len(actions) > RECENT_WINDOW
  /\ \E h \in 1..Len(history) : history[h].kind = "STUCK"

\* ------------------------------------------ properties: agent and its pool
\* C36: a run that took its browser from the pool and during which close()
\* detached the agent from the pool has released that browser to the pool by
\* the time it returns.
C36_ReleasedDespiteClose ==
  (Returned /\ browserFrom = "pool" /\ ~poolAttached) => releases = 1

\* -------------------------------------------- properties: pool capacity
\* C37: a slot freed by a disconnected browser goes to the oldest pending
\* waiter: no acquire() call that arrives while a waiter is pending obtains or
\* launches a browser, and no waiter's deadline passes while the pool holds
\* fewer than maxSize browsers.
C37_FreedSlotGoesToOldestWaiter ==
  [][ /\ \A c \in Clients :
           (pc[c] = "idle" /\ pc'[c] \in {"launching", "holding"}) => arrived = <<>>
      /\ \A c \in Clients :
           (pc[c] = "waiting" /\ lastOp' = [NoOp EXCEPT !.kind = "timeout", !.client = c])
             => Len(browsers) >= maxSize
    ]_vars

\* C38: once close() has completed and no acquire() is still in progress, the
\* live set is empty and every browser the pool launched has been closed (or
\* has its close() under way), a browser whose launch was in flight when
\* close() was called included.
C38_NothingLiveAfterClose ==
  (closePc = "closed" /\ \A c \in Clients : pc[c] # "launching")
    => (browsers = <<>> /\ connected \subseteq closing)

\* ------------------------------------------ the singleton browser's launch
\* The fields of the other components stay as they are.
SingleFrame == UNCHANGED <<poolVars, runVars, llmVars, scraperVars, urlVars, formatVars>>

\* getBrowser() of Tier3Browser, and acquireBrowser() of an agent without a
\* pool: the connected browser, else the stored promise, else a new launch
\* whose promise is stored.
GetBrowser(c) ==
  /\ SingleFrame
  /\ getPc[c] = "idle"
  /\ IF browser # 0 /\ browser \in alive
     THEN /\ getPc' = [getPc EXCEPT ![c] = "returned"]
          /\ awaited' = [awaited EXCEPT ![c] = 0]
          /\ UNCHANGED <<browserPromise, pendingLaunch, launches>>
     ELSE IF browserPromise = 0
     THEN /\ launches < MaxAttempts
          /\ launches' = launches + 1
          /\ browserPromise' = launches + 1
          /\ pendingLaunch' = pendingLaunch \cup {launches + 1}
          /\ getPc' = [getPc EXCEPT ![c] = "awaiting"]
          /\ awaited' = [awaited EXCEPT ![c] = launches + 1]
     ELSE /\ getPc' = [getPc EXCEPT ![c] = "awaiting"]
          /\ awaited' = [awaited EXCEPT ![c] = browserPromise]
          /\ UNCHANGED <<browserPromise, pendingLaunch, launches>>
  /\ UNCHANGED <<holder, browser, alive, failedLaunch, singleClosePc>>

\* launchStealthBrowser resolved: the rest of the async function stores the
\* browser and clears the promise field.
LaunchResolves(n) ==
  /\ SingleFrame
  /\ n \in pendingLaunch
  /\ pendingLaunch' = pendingLaunch \ {n}
  /\ alive' = alive \cup {n}
  /\ browser' = n
  /\ browserPromise' = 0
  /\ UNCHANGED <<holder, failedLaunch, launches, getPc, awaited, singleClosePc>>

\* launchStealthBrowser rejected: the async function ends at its await, and
\* the promise in the field is rejected.
LaunchRejects(n) ==
  /\ SingleFrame
  /\ n \in pendingLaunch
  /\ pendingLaunch' = pendingLaunch \ {n}
  /\ failedLaunch' = failedLaunch \cup {n}
  /\ UNCHANGED <<holder, browser, browserPromise, alive, launches, getPc, awaited,
                 singleClosePc>>

\* The promise a caller was handed has settled: the caller has the browser,
\* or the rejection.
Settles(c) ==
  /\ SingleFrame
  /\ getPc[c] = "awaiting"
  /\ awaited[c] \notin pendingLaunch
  /\ getPc' = [getPc EXCEPT ![c] = IF awaited[c] \in failedLaunch THEN "threw"
                                   ELSE "returned"]
  /\ UNCHANGED <<holder, browser, browserPromise, alive, pendingLaunch, failedLaunch,
                 launches, awaited, singleClosePc>>

\* The run() or scrape() of the caller ends; the caller may call again.
CallerDone(c) ==
  /\ SingleFrame
  /\ getPc[c] \in {"returned", "threw"}
  /\ getPc' = [getPc EXCEPT ![c] = "idle"]
  /\ awaited' = [awaited EXCEPT ![c] = 0]
  /\ UNCHANGED <<holder, browser, browserPromise, alive, pendingLaunch, failedLaunch,
                 launches, singleClosePc>>

\* A browser's connection ends: isConnected() turns false.
SingleDisconnect(n) ==
  /\ SingleFrame
  /\ n \in alive
  /\ alive' = alive \ {n}
  /\ UNCHANGED <<holder, browser, browserPromise, pendingLaunch, failedLaunch, launches,
                 getPc, awaited, singleClosePc>>

\* close() up to its await: browser.close() on the stored browser; with no
\* browser stored close() is over at once, and the agent's clears the promise.
SingleClose ==
  /\ SingleFrame
  /\ singleClosePc = "idle"
  /\ IF browser # 0
     THEN /\ alive' = alive \ {browser}
          /\ singleClosePc' = "closing"
          /\ UNCHANGED browserPromise
     ELSE /\ browserPromise' = IF holder = "agent" THEN 0 ELSE browserPromise
          /\ UNCHANGED <<alive, singleClosePc>>
  /\ UNCHANGED <<holder, browser, pendingLaunch, failedLaunch, launches, getPc, awaited>>

\* close() after its await: the browser field is cleared, and the agent's
\* close() clears the promise field.
SingleCloseDone ==
  /\ SingleFrame
  /\ singleClosePc = "closing"
  /\ browser' = 0
  /\ browserPromise' = IF holder = "agent" THEN 0 ELSE browserPromise
  /\ singleClosePc' = "idle"
  /\ UNCHANGED <<holder, alive, pendingLaunch, failedLaunch, launches, getPc, awaited>>

NextSingle ==
  \/ \E c \in Clients : GetBrowser(c)
  \/ \E n \in 1..MaxAttempts : LaunchResolves(n)
  \/ \E n \in 1..MaxAttempts : LaunchRejects(n)
  \/ \E c \in Clients : Settles(c)
  \/ \E c \in Clients : CallerDone(c)
  \/ \E n \in 1..MaxAttempts : SingleDisconnect(n)
  \/ SingleClose
  \/ SingleCloseDone

InitSingle ==
  /\ maxSize = 1
  /\ PoolEmpty
  /\ RunIdle
  /\ LLMIdle
  /\ ScrapeIdle
  /\ ManyIdle
  /\ UrlIdle
  /\ FormatIdle
  /\ holder \in {"agent", "tier3"}
  /\ SingleQuiet

SpecSingle == InitSingle /\ [][NextSingle]_vars

\* C39: a caller that finds no connected browser and a launch in flight joins
\* that launch instead of starting another, and no caller is handed the
\* promise of a launch that has already failed: it starts a fresh launch.
C39_SharedLaunchFreshAfterFailure ==
  [][\A c \in Clients :
       (getPc[c] = "idle" /\ getPc'[c] = "awaiting")
         => /\ browserPromise \in pendingLaunch => launches' = launches
            /\ awaited'[c] \notin failedLaunch
    ]_vars

\* C40: scrapeMany returns, whatever the urls and the concurrency given, 0
\* and negative values included, when every scrape settles.
C40_ScrapeManyTerminates == <>(manyPc = "returned")

====
